---- MODULE Spec2Model ----
(***************************************************************************)
(* A model of the kv-store: the in-memory storage backend (MemoryStorage), *)
(* the Store with its session registry and transaction book, and the       *)
(* multi-step ExecuteTransaction with selective rollback.                  *)
(*                                                                         *)
(* Each client session calls the Store's operations one after the other;   *)
(* different sessions interleave at the granularity of the locks the code  *)
(* takes: one storage primitive, one critical section of the book mutex.   *)
(***************************************************************************)
EXTENDS Integers, Sequences, FiniteSets, TLC

\* ------------------------------------------------------------------ bounds

\* NewMemoryStorage(numDatabases): the number of databases of the model.
NumDatabases == 2

\* The longest queue a transaction is given when sessions run concurrently.
MaxQueue == 2

\* The longest queue a transaction is given when one session runs alone.
MaxQueueSolo == 3

\* The width of the machine integer (int64 in the code), scaled down.
IntBits == 3

\* The session ids (the clientId of each connection).
Sessions == {"c1", "c2", "c3"}

Keys == {"a", "b"}

DBs == 0 .. (NumDatabases - 1)

MaxInt64 == 2 ^ (IntBits - 1) - 1

MinInt64 == -(2 ^ (IntBits - 1))

Int64 == MinInt64 .. MaxInt64

\* ------------------------------------------------------------------ errors

NoError == "nil"

ErrIntOverflow == "err increment or decrement would overflow"

ErrNoTransactionInProgress == "err no transaction in progress"

ErrTransactionInProgress == "err transaction already in progress"

ErrNotInteger == "err value is not an integer or out of range"

ErrUnknownCommand(cmdName) == "err unknown command: " \o cmdName

ErrSelectInTransaction == "err SELECT is not allowed in transactions"

ErrDiscardedPriorErrors == "err Transaction discarded because of previous errors"

\* ------------------------------------------------- strconv: int64 <-> text

\* strconv.FormatInt(n, 10): the canonical decimal spelling.
FormatInt(n) == ToString(n)

\* The decimal spellings of n that strconv.ParseInt accepts: an optional sign
\* and leading zeros (one leading zero is enough for the model).
Spellings(n) ==
    IF n >= 0
    THEN {FormatInt(n), "+" \o FormatInt(n), "0" \o FormatInt(n)}
    ELSE {FormatInt(n), "-0" \o FormatInt(-n)}

\* A faulty parse: a text that is no number counts as 0.
ParseIntLenient(str) ==
    LET m == {n \in Int64 : str \in Spellings(n)}
    IN  IF m = {} THEN [ok |-> TRUE, val |-> 0]
        ELSE [ok |-> TRUE, val |-> CHOOSE n \in m : TRUE]

\* strconv.ParseInt(str, 10, 64): the value, or an error for text that is not
\* a decimal integer or is out of the integer's range.
ParseInt(str) ==
    LET m == {n \in Int64 : str \in Spellings(n)}
    IN  IF m = {} THEN [ok |-> FALSE, val |-> 0]
        ELSE [ok |-> TRUE, val |-> CHOOSE n \in m : TRUE]

\* A faulty addition: the increment is subtracted.
WrapAddNegated(x, y) ==
    ((x - y - MinInt64) % (2 ^ IntBits)) + MinInt64

\* The machine addition: the sum reduced to IntBits bits, two's complement.
WrapAdd(x, y) ==
    ((x + y - MinInt64) % (2 ^ IntBits)) + MinInt64

\* A faulty check: no sum is refused.
checkIntegerOverflowNever(currentValue, increment) == NoError

\* The machine subtraction, reduced as the addition is.
WrapSub(x, y) ==
    ((x - y - MinInt64) % (2 ^ IntBits)) + MinInt64

\* A faulty check: a sum that is the largest or the smallest value is refused.
checkIntegerOverflowStrict(currentValue, increment) ==
    IF increment > 0 /\ currentValue >= WrapSub(MaxInt64, increment) THEN ErrIntOverflow
    ELSE IF increment < 0 /\ currentValue <= WrapSub(MinInt64, increment) THEN ErrIntOverflow
    ELSE NoError

\* checkIntegerOverflow: the two differences are machine subtractions, each
\* evaluated only behind the sign test in front of it.
checkIntegerOverflow(currentValue, increment) ==
    IF increment > 0 /\ currentValue > WrapSub(MaxInt64, increment) THEN ErrIntOverflow
    ELSE IF increment < 0 /\ currentValue < WrapSub(MinInt64, increment) THEN ErrIntOverflow
    ELSE NoError

\* The exact values of the differences checkIntegerOverflow evaluates for an
\* increment: the second condition is reached when the first did not return.
OverflowTerms(currentValue, increment) ==
    (IF increment > 0 THEN {MaxInt64 - increment} ELSE {})
    \cup (IF ~(increment > 0 /\ currentValue > WrapSub(MaxInt64, increment))
              /\ increment < 0
          THEN {MinInt64 - increment} ELSE {})

\* ------------------------------------------------------- MemoryStorage maps

\* A Go map is a function on the set of its keys.
EmptyMap == << >>

MapPut(m, k, v) == [x \in (DOMAIN m) \cup {k} |-> IF x = k THEN v ELSE m[x]]

MapDelete(m, k) == [x \in (DOMAIN m) \ {k} |-> m[x]]

\* A *string: the nil pointer, or a pointer to a copy of a value.
NilPtr == << >>

PtrTo(v) == <<v>>

\* The state of one key of one database as a *string: nil when absent.
Cell(m, k) == IF k \in DOMAIN m THEN PtrTo(m[k]) ELSE NilPtr

\* A faulty Set: a key that is present keeps its value.
StorageSetIfAbsent(d, dbIndex, key, value) ==
    IF key \in DOMAIN d[dbIndex] THEN d
    ELSE [d EXCEPT ![dbIndex] = MapPut(@, key, value)]

\* A faulty Set: the key is written in every database.
StorageSetEverywhere(d, dbIndex, key, value) ==
    [i \in DOMAIN d |-> MapPut(d[i], key, value)]

\* MemoryStorage.Set
StorageSet(d, dbIndex, key, value) ==
    [d EXCEPT ![dbIndex] = MapPut(@, key, value)]

\* MemoryStorage.Get: (value, ok); the zero value "" when absent.
StorageGet(d, dbIndex, key) ==
    IF key \in DOMAIN d[dbIndex]
    THEN [value |-> d[dbIndex][key], ok |-> TRUE]
    ELSE [value |-> "", ok |-> FALSE]

\* A faulty Del: the count is 0 also for a key that was present.
StorageDelCountsZero(d, dbIndex, key) ==
    IF key \in DOMAIN d[dbIndex]
    THEN [data |-> [d EXCEPT ![dbIndex] = MapDelete(@, key)], n |-> 0]
    ELSE [data |-> d, n |-> 0]

\* MemoryStorage.Del: the new maps and the count returned.
StorageDel(d, dbIndex, key) ==
    IF key \notin DOMAIN d[dbIndex]
    THEN [data |-> d, n |-> 0]
    ELSE [data |-> [d EXCEPT ![dbIndex] = MapDelete(@, key)], n |-> 1]

\* A faulty IncrBy: it returns the sum but does not store it.
StorageIncrByUnstored(d, dbIndex, key, increment) ==
    LET ok      == key \in DOMAIN d[dbIndex]
        parsed  == IF ok THEN ParseInt(d[dbIndex][key]) ELSE [ok |-> TRUE, val |-> 0]
    IN  IF ~parsed.ok
        THEN [data |-> d, val |-> 0, err |-> ErrNotInteger]
        ELSE IF checkIntegerOverflow(parsed.val, increment) # NoError
        THEN [data |-> d, val |-> 0, err |-> checkIntegerOverflow(parsed.val, increment)]
        ELSE [data |-> d, val |-> WrapAdd(parsed.val, increment), err |-> NoError]

\* MemoryStorage.IncrBy: the new maps, the value returned and the error.
StorageIncrBy(d, dbIndex, key, increment) ==
    LET ok      == key \in DOMAIN d[dbIndex]
        parsed  == IF ok THEN ParseInt(d[dbIndex][key]) ELSE [ok |-> TRUE, val |-> 0]
        current == parsed.val
        sum     == WrapAdd(current, increment)
    IN  IF ~parsed.ok
        THEN [data |-> d, val |-> 0, err |-> ErrNotInteger]
        ELSE IF checkIntegerOverflow(current, increment) # NoError
        THEN [data |-> d, val |-> 0, err |-> checkIntegerOverflow(current, increment)]
        ELSE [data |-> [d EXCEPT ![dbIndex] = MapPut(@, key, FormatInt(sum))],
              val |-> sum, err |-> NoError]

\* The permutations of a finite set: the orders a range over a Go map may take.
Orders(S) ==
    {o \in [1 .. Cardinality(S) -> S] : \A x \in S : \E j \in DOMAIN o : o[j] = x}

RECURSIVE JoinLines(_)
\* strings.Join(lines, "\n")
JoinLines(lines) ==
    IF Len(lines) = 0 THEN ""
    ELSE IF Len(lines) = 1 THEN lines[1]
    ELSE lines[1] \o "\n" \o JoinLines(Tail(lines))

\* A faulty Compact: only the first key of the range gets a line.
StorageCompactFirst(d, dbIndex, order) ==
    IF Len(order) = 0 THEN ""
    ELSE "SET " \o order[1] \o " " \o d[dbIndex][order[1]]

\* MemoryStorage.Compact, the map ranged over in the order given.
StorageCompact(d, dbIndex, order) ==
    JoinLines([j \in DOMAIN order |->
        "SET " \o order[j] \o " " \o d[dbIndex][order[j]]])

\* ------------------------------------------------------------------- state

VARIABLES
    data,               \* MemoryStorage.data: one map per database
    clientDBIndices,    \* Store.clientDBIndices: session id -> db index
    transactions,       \* Store.transactions: session id -> *Transaction
    transactionMutex,   \* Store.transactionMutex: its holder, or Unlocked
    frame,              \* per session: the locals of its ExecuteTransaction call
    reply,              \* per session: what its last call returned
    crashed,            \* the process died of a nil pointer dereference
    wire,               \* per session: the response line written last
    hist                \* history, per session in EXEC: the database as the
                        \* batch found it, what other sessions wrote meanwhile

vars == <<data, clientDBIndices, transactions, transactionMutex, frame, reply,
          crashed, wire, hist>>

Unlocked == "unlocked"

\* &Transaction{commands, originalValues, dbIndex}, hasErrors its zero value.
NewTransaction(dbIndex) ==
    [commands |-> << >>, originalValues |-> EmptyMap, hasErrors |-> FALSE,
     dbIndex |-> dbIndex]

\* Command{name, args}
Command(name, args) == [name |-> name, args |-> args]

\* The locals of a session that is not inside ExecuteTransaction.
IdleFrame ==
    [pc |-> "idle", commands |-> << >>, dbIndex |-> 0, i |-> 0,
     results |-> << >>, err |-> NoError, left |-> {}]

IdleHist == [pre |-> EmptyMap, own |-> {}, mid |-> {}, late |-> {}]

\* No call of the session has returned yet, or one is running.
NoReply == [op |-> "none", err |-> NoError, val |-> << >>]

Return(op, err, val) == [op |-> op, err |-> err, val |-> val]

\* Nothing is written to the connection yet, or a line is being processed.
NoResponse == "(no response)"

\* Store.GetClientDBIndex: 0 for a session the registry does not know.
GetClientDBIndex(clientId) ==
    IF clientId \in DOMAIN clientDBIndices THEN clientDBIndices[clientId] ELSE 0

\* Store.InTransaction: the map has an entry, whatever pointer it holds.
InTransaction(transactionId) == transactionId \in DOMAIN transactions

\* The record a session's EXEC works on: the pointer it read from the map.
Tx(s) == transactions[s][1]

\* A session may start a call: it is between calls and the process is alive.
Ready(s) == ~crashed /\ frame[s].pc = "idle"

Init ==
    /\ data = [i \in DBs |-> EmptyMap]
    /\ clientDBIndices = EmptyMap
    /\ transactions = EmptyMap
    /\ transactionMutex = Unlocked
    /\ frame = [s \in Sessions |-> IdleFrame]
    /\ reply = [s \in Sessions |-> NoReply]
    /\ crashed = FALSE
    /\ wire = [s \in Sessions |-> NoResponse]
    /\ hist = [s \in Sessions |-> IdleHist]

\* ------------------------------------------------- immediate store commands

\* Store.Set
Set(s, dbIndex, key, value) ==
    /\ Ready(s)
    /\ data' = StorageSet(data, dbIndex, key, value)
    /\ reply' = [reply EXCEPT ![s] = Return("Set", NoError, << >>)]
    /\ UNCHANGED <<clientDBIndices, transactions, transactionMutex, frame, crashed>>

\* Store.Get
Get(s, dbIndex, key) ==
    /\ Ready(s)
    /\ reply' = [reply EXCEPT ![s] = Return("Get", NoError, StorageGet(data, dbIndex, key))]
    /\ UNCHANGED <<data, clientDBIndices, transactions, transactionMutex, frame,
                   crashed>>

\* Store.Del
Del(s, dbIndex, key) ==
    /\ Ready(s)
    /\ LET r == StorageDel(data, dbIndex, key)
       IN  /\ data' = r.data
           /\ reply' = [reply EXCEPT ![s] = Return("Del", NoError, r.n)]
    /\ UNCHANGED <<clientDBIndices, transactions, transactionMutex, frame, crashed>>

\* Store.IncrBy, and Store.Incr with increment 1
IncrBy(s, dbIndex, key, increment) ==
    /\ Ready(s)
    /\ LET r == StorageIncrBy(data, dbIndex, key, increment)
       IN  /\ data' = r.data
           /\ reply' = [reply EXCEPT ![s] = Return("IncrBy", r.err, r.val)]
    /\ UNCHANGED <<clientDBIndices, transactions, transactionMutex, frame, crashed>>

\* Store.Compact
Compact(s, dbIndex) ==
    /\ Ready(s)
    /\ \E order \in Orders(DOMAIN data[dbIndex]) :
          reply' = [reply EXCEPT ![s] =
                        Return("Compact", NoError, StorageCompact(data, dbIndex, order))]
    /\ UNCHANGED <<data, clientDBIndices, transactions, transactionMutex, frame,
                   crashed>>

\* --------------------------------------------------------- session registry

\* A faulty SetClientDBIndex: it stores 0 whatever the index.
SetClientDBIndexZero(s, dbIndex) ==
    /\ Ready(s)
    /\ clientDBIndices' = MapPut(clientDBIndices, s, 0)
    /\ reply' = [reply EXCEPT ![s] = Return("SetClientDBIndex", NoError, << >>)]
    /\ UNCHANGED <<data, transactions, transactionMutex, frame, crashed>>

\* Store.SetClientDBIndex
SetClientDBIndex(s, dbIndex) ==
    /\ Ready(s)
    /\ clientDBIndices' = MapPut(clientDBIndices, s, dbIndex)
    /\ reply' = [reply EXCEPT ![s] = Return("SetClientDBIndex", NoError, << >>)]
    /\ UNCHANGED <<data, transactions, transactionMutex, frame, crashed>>

\* A faulty RemoveClient: it empties the registry.
RemoveClientAll(s) ==
    /\ Ready(s)
    /\ clientDBIndices' = EmptyMap
    /\ reply' = [reply EXCEPT ![s] = Return("RemoveClient", NoError, << >>)]
    /\ UNCHANGED <<data, transactions, transactionMutex, frame, crashed>>

\* Store.RemoveClient
RemoveClient(s) ==
    /\ Ready(s)
    /\ clientDBIndices' = MapDelete(clientDBIndices, s)
    /\ reply' = [reply EXCEPT ![s] = Return("RemoveClient", NoError, << >>)]
    /\ UNCHANGED <<data, transactions, transactionMutex, frame, crashed>>

\* --------------------------------------------------------- transaction book

\* A pointer read from the map that the code dereferences: nil panics.
IsNil(s) == transactions[s] = NilPtr

\* The unrecovered panic of a nil pointer dereference ends the process, and
\* with it the store: nothing of its memory is left.
Panic ==
    /\ crashed' = TRUE
    /\ data' = [i \in DBs |-> EmptyMap]
    /\ clientDBIndices' = EmptyMap
    /\ transactions' = EmptyMap
    /\ transactionMutex' = Unlocked
    /\ frame' = [s \in Sessions |-> IdleFrame]
    /\ reply' = [s \in Sessions |-> NoReply]

\* A faulty StartTransaction: it replaces the transaction a session already has.
StartTransactionReset(s) ==
    /\ Ready(s)
    /\ transactionMutex = Unlocked
    /\ transactions' =
          MapPut(transactions, s, PtrTo(NewTransaction(GetClientDBIndex(s))))
    /\ reply' = [reply EXCEPT ![s] =
          Return("StartTransaction",
                 IF InTransaction(s) THEN ErrTransactionInProgress ELSE NoError, << >>)]
    /\ UNCHANGED <<data, clientDBIndices, transactionMutex, frame, crashed>>

\* Store.StartTransaction
StartTransaction(s) ==
    /\ Ready(s)
    /\ transactionMutex = Unlocked
    /\ IF InTransaction(s)
       THEN /\ reply' = [reply EXCEPT ![s] =
                            Return("StartTransaction", ErrTransactionInProgress, << >>)]
            /\ UNCHANGED transactions
       ELSE /\ transactions' =
                  MapPut(transactions, s, PtrTo(NewTransaction(GetClientDBIndex(s))))
            /\ reply' = [reply EXCEPT ![s] = Return("StartTransaction", NoError, << >>)]
    /\ UNCHANGED <<data, clientDBIndices, transactionMutex, frame, crashed>>

\* A faulty QueueCommand: the command goes to the head of the queue.
QueueCommandFront(s, name, args) ==
    /\ Ready(s)
    /\ transactionMutex = Unlocked
    /\ \/ /\ ~InTransaction(s)
          /\ reply' = [reply EXCEPT ![s] =
                          Return("QueueCommand", ErrNoTransactionInProgress, << >>)]
          /\ UNCHANGED <<data, clientDBIndices, transactions, transactionMutex,
                         frame, crashed>>
       \/ /\ InTransaction(s) /\ IsNil(s)
          /\ Panic
       \/ /\ InTransaction(s) /\ ~IsNil(s)
          /\ transactions' = [transactions EXCEPT
                ![s] = PtrTo([Tx(s) EXCEPT !.commands = <<Command(name, args)>> \o @])]
          /\ reply' = [reply EXCEPT ![s] = Return("QueueCommand", NoError, << >>)]
          /\ UNCHANGED <<data, clientDBIndices, transactionMutex, frame, crashed>>

\* Store.QueueCommand
QueueCommand(s, name, args) ==
    /\ Ready(s)
    /\ transactionMutex = Unlocked
    /\ \/ /\ ~InTransaction(s)
          /\ reply' = [reply EXCEPT ![s] =
                          Return("QueueCommand", ErrNoTransactionInProgress, << >>)]
          /\ UNCHANGED <<data, clientDBIndices, transactions, transactionMutex,
                         frame, crashed>>
       \/ /\ InTransaction(s) /\ IsNil(s)
          /\ Panic
       \/ /\ InTransaction(s) /\ ~IsNil(s)
          /\ transactions' = [transactions EXCEPT
                ![s] = PtrTo([Tx(s) EXCEPT !.commands = Append(@, Command(name, args))])]
          /\ reply' = [reply EXCEPT ![s] = Return("QueueCommand", NoError, << >>)]
          /\ UNCHANGED <<data, clientDBIndices, transactionMutex, frame, crashed>>

\* A faulty DiscardTransaction: the entry stays in the map.
DiscardTransactionKeep(s) ==
    /\ Ready(s)
    /\ transactionMutex = Unlocked
    /\ reply' = [reply EXCEPT ![s] =
          Return("DiscardTransaction",
                 IF InTransaction(s) THEN NoError ELSE ErrNoTransactionInProgress, << >>)]
    /\ UNCHANGED <<data, clientDBIndices, transactions, transactionMutex, frame, crashed>>

\* Store.DiscardTransaction
DiscardTransaction(s) ==
    /\ Ready(s)
    /\ transactionMutex = Unlocked
    /\ IF ~InTransaction(s)
       THEN /\ reply' = [reply EXCEPT ![s] =
                            Return("DiscardTransaction", ErrNoTransactionInProgress, << >>)]
            /\ UNCHANGED transactions
       ELSE /\ transactions' = MapDelete(transactions, s)
            /\ reply' = [reply EXCEPT ![s] = Return("DiscardTransaction", NoError, << >>)]
    /\ UNCHANGED <<data, clientDBIndices, transactionMutex, frame, crashed>>

\* A faulty ReportTransactionError: the flag is not set.
ReportTransactionErrorNoop(s) ==
    /\ Ready(s)
    /\ transactionMutex = Unlocked
    /\ reply' = [reply EXCEPT ![s] = Return("ReportTransactionError", NoError, << >>)]
    /\ UNCHANGED <<data, clientDBIndices, transactions, transactionMutex, frame, crashed>>

\* Store.ReportTransactionError
ReportTransactionError(s) ==
    /\ Ready(s)
    /\ transactionMutex = Unlocked
    /\ \/ /\ ~InTransaction(s)
          /\ reply' = [reply EXCEPT ![s] = Return("ReportTransactionError", NoError, << >>)]
          /\ UNCHANGED <<data, clientDBIndices, transactions, transactionMutex,
                         frame, crashed>>
       \/ /\ InTransaction(s) /\ IsNil(s)
          /\ Panic
       \/ /\ InTransaction(s) /\ ~IsNil(s)
          /\ transactions' = [transactions EXCEPT
                ![s] = PtrTo([Tx(s) EXCEPT !.hasErrors = TRUE])]
          /\ reply' = [reply EXCEPT ![s] = Return("ReportTransactionError", NoError, << >>)]
          /\ UNCHANGED <<data, clientDBIndices, transactionMutex, frame, crashed>>

\* ------------------------------------------------------ ExecuteTransaction

\* A faulty test of the flag: ExecuteTransaction never sees it set.
HasErrorsNever(s) == FALSE

\* transaction.hasErrors, as ExecuteTransaction tests it.
HasErrors(s) == Tx(s).hasErrors

\* A faulty loop: every round runs the first command of the batch.
CmdFirst(s) == frame[s].commands[1]

\* The command the loop of ExecuteTransaction is at.
Cmd(s) == frame[s].commands[frame[s].i]

\* The commands that save a pre-image and then call a writing primitive.
Mutating(cmd) ==
    \/ cmd.name \in {"SET", "DEL", "INCR"}
    \/ cmd.name = "INCRBY" /\ ParseInt(cmd.args[2]).ok

\* The commands the loop aborts at before it touches the storage.
Aborting(cmd) ==
    \/ cmd.name \notin {"SET", "GET", "DEL", "INCR", "INCRBY", "COMPACT"}
    \/ cmd.name = "INCRBY" /\ ~ParseInt(cmd.args[2]).ok

\* A faulty loop: a SELECT is reported as an unknown command.
AbortErrorUnknown(cmd) ==
    IF cmd.name = "INCRBY" THEN ErrNotInteger
    ELSE ErrUnknownCommand(cmd.name)

\* The error the loop returns for a command it aborts at.
AbortError(cmd) ==
    IF cmd.name = "INCRBY" THEN ErrNotInteger
    ELSE IF cmd.name = "SELECT" THEN ErrSelectInTransaction
    ELSE ErrUnknownCommand(cmd.name)

\* A faulty loop: it steps over the command after the one it applied.
AdvanceSkip(s, result) ==
    frame' = [frame EXCEPT ![s].results = Append(@, result), ![s].i = @ + 2,
                           ![s].pc = "run"]

\* A faulty loop: the result goes to the head of the results.
AdvancePrepend(s, result) ==
    frame' = [frame EXCEPT ![s].results = <<result>> \o @, ![s].i = @ + 1,
                           ![s].pc = "run"]

\* The loop goes on to the next command with one more result.
Advance(s, result) ==
    frame' = [frame EXCEPT ![s].results = Append(@, result), ![s].i = @ + 1,
                           ![s].pc = "run"]

\* The call of rollbackSelective: it ranges over the pre-images saved so far.
StartRollback(s, err) ==
    frame' = [frame EXCEPT ![s].pc = "rollback", ![s].err = err,
                           ![s].left = DOMAIN Tx(s).originalValues]

\* A faulty ExecuteTransaction: the loop works on the database the registry
\* names when EXEC is called.
ExecBeginCurrentIndex(s) ==
    /\ Ready(s)
    /\ transactionMutex = Unlocked
    /\ \/ /\ ~InTransaction(s)
          /\ reply' = [reply EXCEPT ![s] =
                          Return("ExecuteTransaction", ErrNoTransactionInProgress, << >>)]
          /\ UNCHANGED <<data, clientDBIndices, transactions, transactionMutex,
                         frame, crashed>>
       \/ /\ InTransaction(s) /\ IsNil(s)
          /\ Panic
       \/ /\ InTransaction(s) /\ ~IsNil(s) /\ HasErrors(s)
          /\ transactionMutex' = s
          /\ reply' = [reply EXCEPT ![s] =
                          Return("ExecuteTransaction", ErrDiscardedPriorErrors, << >>)]
          /\ UNCHANGED <<data, clientDBIndices, transactions, frame, crashed>>
       \/ /\ InTransaction(s) /\ ~IsNil(s) /\ ~HasErrors(s)
          /\ frame' = [frame EXCEPT ![s] =
                [IdleFrame EXCEPT !.pc = "run", !.commands = Tx(s).commands,
                                  !.dbIndex = GetClientDBIndex(s), !.i = 1]]
          /\ reply' = [reply EXCEPT ![s] = NoReply]
          /\ UNCHANGED <<data, clientDBIndices, transactions, transactionMutex,
                         crashed>>

\* ExecuteTransaction, from its Lock to the Unlock before the loop.
ExecBegin(s) ==
    /\ Ready(s)
    /\ transactionMutex = Unlocked
    /\ \/ /\ ~InTransaction(s)
          /\ reply' = [reply EXCEPT ![s] =
                          Return("ExecuteTransaction", ErrNoTransactionInProgress, << >>)]
          /\ UNCHANGED <<data, clientDBIndices, transactions, transactionMutex,
                         frame, crashed>>
       \/ /\ InTransaction(s) /\ IsNil(s)
          /\ Panic
       \/ /\ InTransaction(s) /\ ~IsNil(s) /\ HasErrors(s)
          \* returns with the mutex still locked
          /\ transactionMutex' = s
          /\ reply' = [reply EXCEPT ![s] =
                          Return("ExecuteTransaction", ErrDiscardedPriorErrors, << >>)]
          /\ UNCHANGED <<data, clientDBIndices, transactions, frame, crashed>>
       \/ /\ InTransaction(s) /\ ~IsNil(s) /\ ~HasErrors(s)
          /\ frame' = [frame EXCEPT ![s] =
                [IdleFrame EXCEPT !.pc = "run", !.commands = Tx(s).commands,
                                  !.dbIndex = Tx(s).dbIndex, !.i = 1]]
          /\ reply' = [reply EXCEPT ![s] = NoReply]
          /\ UNCHANGED <<data, clientDBIndices, transactions, transactionMutex,
                         crashed>>

\* A faulty saveOriginalValue: it records the key's state before every writing
\* command, over a pre-image it has.
ExecSaveAgain(s) ==
    /\ ~crashed
    /\ frame[s].pc = "run" /\ frame[s].i <= Len(frame[s].commands)
    /\ Mutating(Cmd(s))
    /\ LET key == Cmd(s).args[1]
           got == StorageGet(data, Tx(s).dbIndex, key)
       IN  transactions' = [transactions EXCEPT
                 ![s] = PtrTo([Tx(s) EXCEPT !.originalValues =
                            MapPut(@, key, IF got.ok THEN PtrTo(got.value) ELSE NilPtr)])]
    /\ frame' = [frame EXCEPT ![s].pc = "apply"]
    /\ UNCHANGED <<data, clientDBIndices, transactionMutex, reply, crashed>>

\* Store.saveOriginalValue, for a key that has no pre-image yet: one Get of the
\* storage, in the database of the transaction record.
ExecSave(s) ==
    /\ ~crashed
    /\ frame[s].pc = "run" /\ frame[s].i <= Len(frame[s].commands)
    /\ Mutating(Cmd(s))
    /\ LET key == Cmd(s).args[1]
           got == StorageGet(data, Tx(s).dbIndex, key)
       IN  /\ key \notin DOMAIN Tx(s).originalValues
           /\ transactions' = [transactions EXCEPT
                 ![s] = PtrTo([Tx(s) EXCEPT !.originalValues =
                            MapPut(@, key, IF got.ok THEN PtrTo(got.value) ELSE NilPtr)])]
    /\ frame' = [frame EXCEPT ![s].pc = "apply"]
    /\ UNCHANGED <<data, clientDBIndices, transactionMutex, reply, crashed>>

\* The writing primitive of a SET, DEL, INCR or INCRBY, once the pre-image of
\* its key is saved.
ExecApply(s) ==
    /\ ~crashed
    /\ frame[s].pc \in {"run", "apply"} /\ frame[s].i <= Len(frame[s].commands)
    /\ Mutating(Cmd(s))
    /\ \/ frame[s].pc = "apply"
       \/ frame[s].pc = "run" /\ Cmd(s).args[1] \in DOMAIN Tx(s).originalValues
    /\ LET cmd     == Cmd(s)
           key     == cmd.args[1]
           dbIndex == frame[s].dbIndex
       IN  \/ /\ cmd.name = "SET"
              /\ data' = StorageSet(data, dbIndex, key, cmd.args[2])
              /\ Advance(s, "OK")
           \/ /\ cmd.name = "DEL"
              /\ LET r == StorageDel(data, dbIndex, key)
                 IN  /\ data' = r.data
                     /\ Advance(s, FormatInt(r.n))
           \/ /\ cmd.name \in {"INCR", "INCRBY"}
              /\ LET increment == IF cmd.name = "INCR" THEN 1 ELSE ParseInt(cmd.args[2]).val
                     r == StorageIncrBy(data, dbIndex, key, increment)
                 IN  /\ data' = r.data
                     /\ IF r.err = NoError
                        THEN Advance(s, FormatInt(r.val))
                        ELSE StartRollback(s, r.err)
    /\ UNCHANGED <<clientDBIndices, transactions, transactionMutex, reply, crashed>>

\* A GET or COMPACT of the batch: one reading primitive, no pre-image.
ExecRead(s) ==
    /\ ~crashed
    /\ frame[s].pc = "run" /\ frame[s].i <= Len(frame[s].commands)
    /\ \/ /\ Cmd(s).name = "GET"
          /\ LET got == StorageGet(data, frame[s].dbIndex, Cmd(s).args[1])
             IN  Advance(s, IF got.ok THEN got.value ELSE "nil")
       \/ /\ Cmd(s).name = "COMPACT"
          /\ \E order \in Orders(DOMAIN data[frame[s].dbIndex]) :
                Advance(s, StorageCompact(data, frame[s].dbIndex, order))
    /\ UNCHANGED <<data, clientDBIndices, transactions, transactionMutex, reply,
                   crashed>>

\* A SELECT, an unknown command or an INCRBY whose increment does not parse:
\* the loop calls rollbackSelective and will return the error.
ExecAbort(s) ==
    /\ ~crashed
    /\ frame[s].pc = "run" /\ frame[s].i <= Len(frame[s].commands)
    /\ Aborting(Cmd(s))
    /\ StartRollback(s, AbortError(Cmd(s)))
    /\ UNCHANGED <<data, clientDBIndices, transactions, transactionMutex, reply,
                   crashed>>

\* A faulty restore: a key that did not exist before is left in place.
RestoreNoDelete(d, dbIndex, key, originalValuePtr) ==
    IF originalValuePtr = NilPtr
    THEN d
    ELSE StorageSet(d, dbIndex, key, originalValuePtr[1])

\* A faulty restore: a key that existed before keeps the value it has now.
RestoreSkipsPresent(d, dbIndex, key, originalValuePtr) ==
    IF originalValuePtr = NilPtr
    THEN StorageDel(d, dbIndex, key).data
    ELSE d

\* A faulty restore: it writes to database 0, whatever the transaction's.
RestoreFirstDatabase(d, dbIndex, key, originalValuePtr) ==
    IF originalValuePtr = NilPtr
    THEN StorageDel(d, 0, key).data
    ELSE StorageSet(d, 0, key, originalValuePtr[1])

\* The storage after rollbackSelective restored one key: deleted when its
\* pre-image is nil, set to the pre-image otherwise.
Restore(d, dbIndex, key, originalValuePtr) ==
    IF originalValuePtr = NilPtr
    THEN StorageDel(d, dbIndex, key).data
    ELSE StorageSet(d, dbIndex, key, originalValuePtr[1])

\* One round of the loop of rollbackSelective; the map is ranged over in any
\* order.
RollbackStep(s) ==
    /\ ~crashed
    /\ frame[s].pc = "rollback"
    /\ \E key \in frame[s].left :
          /\ data' = Restore(data, frame[s].dbIndex, key, Tx(s).originalValues[key])
          /\ frame' = [frame EXCEPT ![s].left = @ \ {key}]
    /\ UNCHANGED <<clientDBIndices, transactions, transactionMutex, reply, crashed>>

\* A faulty end of rollbackSelective: the entry stays in the map.
RollbackEndKeep(s) ==
    /\ ~crashed
    /\ frame[s].pc = "rollback" /\ frame[s].left = {}
    /\ transactionMutex = Unlocked
    /\ reply' = [reply EXCEPT ![s] = Return("ExecuteTransaction", frame[s].err, << >>)]
    /\ frame' = [frame EXCEPT ![s] = IdleFrame]
    /\ UNCHANGED <<data, clientDBIndices, transactions, transactionMutex, crashed>>

\* The end of rollbackSelective (the entry is deleted under the mutex) and the
\* return of the error.
RollbackEnd(s) ==
    /\ ~crashed
    /\ frame[s].pc = "rollback" /\ frame[s].left = {}
    /\ transactionMutex = Unlocked
    /\ transactions' = MapDelete(transactions, s)
    /\ reply' = [reply EXCEPT ![s] = Return("ExecuteTransaction", frame[s].err, << >>)]
    /\ frame' = [frame EXCEPT ![s] = IdleFrame]
    /\ UNCHANGED <<data, clientDBIndices, transactionMutex, crashed>>

\* The end of a batch that ran through: the entry is set to nil, without the
\* mutex, and the results are returned.
ExecFinish(s) ==
    /\ ~crashed
    /\ frame[s].pc = "run" /\ frame[s].i > Len(frame[s].commands)
    /\ transactions' = MapPut(transactions, s, NilPtr)
    /\ reply' = [reply EXCEPT ![s] = Return("ExecuteTransaction", NoError, frame[s].results)]
    /\ frame' = [frame EXCEPT ![s] = IdleFrame]
    /\ UNCHANGED <<data, clientDBIndices, transactionMutex, crashed>>

\* The same write of the map when it overlaps a map access of a call of another
\* session t: the two race, and the Go runtime may end the process ("fatal error:
\* concurrent map writes", or "concurrent map read and map write").
ExecFinishRace(s, t) ==
    /\ ~crashed
    /\ frame[s].pc = "run" /\ frame[s].i > Len(frame[s].commands)
    /\ t # s /\ frame[t].pc = "idle"
    /\ Panic

\* ------------------------------------------------------- history variable

\* The keys of database dbIndex whose state a step changed.
Changed(dbIndex) ==
    {k \in Keys : Cell(data'[dbIndex], k) # Cell(data[dbIndex], k)}

\* hist after a step. For a session inside ExecuteTransaction it keeps the
\* database as the call found it (pre, when keepImage), the keys whose state a
\* command of its batch changed (own), and the keys whose state a step of
\* another session changed while the session held their pre-image: before the
\* rollback restored them (mid) or after (late).
Observe(keepImage) ==
    hist' = [t \in Sessions |->
        IF frame'[t].pc = "idle" THEN IdleHist
        ELSE IF frame[t].pc = "idle"
        THEN [IdleHist EXCEPT !.pre = IF keepImage THEN data[frame'[t].dbIndex]
                                       ELSE EmptyMap]
        ELSE IF frame'[t] # frame[t]
        THEN [hist[t] EXCEPT !.own = @ \cup (IF frame[t].pc = "rollback" THEN {}
                                             ELSE Changed(frame[t].dbIndex))]
        ELSE LET saved    == DOMAIN Tx(t).originalValues
                 restored == IF frame[t].pc = "rollback" THEN saved \ frame[t].left
                             ELSE {}
                 changed  == Changed(frame[t].dbIndex)
             IN  [hist[t] EXCEPT
                    !.mid  = @ \cup (changed \cap (saved \ restored)),
                    !.late = @ \cup (changed \cap restored)]]

\* ----------------------------------------------------------- specifications

\* The values a client sets.
SetValues == {"x"}

\* The commands the sessions of Spec queue.
QueueInputs == {Command("SET", <<"a", "x">>), Command("INCR", <<"a">>)}

\* The queue of the session's transaction, if it has one, is shorter than n.
Room(s, n) == (InTransaction(s) /\ ~IsNil(s)) => Len(Tx(s).commands) < n

\* The sessions that run side by side in Spec.
Concurrent == {"c1", "c2"}

\* The session of Spec that writes to database 0 between its transactions.
Writer(s) == s = "c2" /\ ~InTransaction(s)

\* Two sessions run transactions on database 0, and one of them also writes to
\* it between its transactions.
Next ==
    \E s \in Concurrent :
        \/ StartTransaction(s) /\ Observe(FALSE) /\ UNCHANGED wire
        \/ (\E c \in QueueInputs : Room(s, MaxQueue) /\ QueueCommand(s, c.name, c.args))
              /\ Observe(FALSE) /\ UNCHANGED wire
        \/ DiscardTransaction(s) /\ Observe(FALSE) /\ UNCHANGED wire
        \/ ReportTransactionError(s) /\ Observe(FALSE) /\ UNCHANGED wire
        \/ ExecBegin(s) /\ Observe(FALSE) /\ UNCHANGED wire
        \/ ExecSave(s) /\ Observe(FALSE) /\ UNCHANGED wire
        \/ ExecApply(s) /\ Observe(FALSE) /\ UNCHANGED wire
        \/ RollbackStep(s) /\ Observe(FALSE) /\ UNCHANGED wire
        \/ RollbackEnd(s) /\ Observe(FALSE) /\ UNCHANGED wire
        \/ ExecFinish(s) /\ Observe(FALSE) /\ UNCHANGED wire
        \/ (\E t \in Concurrent : ExecFinishRace(s, t)) /\ Observe(FALSE) /\ UNCHANGED wire
        \/ (\E k \in Keys, v \in SetValues : Writer(s) /\ Set(s, 0, k, v)) /\ Observe(FALSE) /\ UNCHANGED wire
        \/ (\E k \in Keys : Writer(s) /\ Del(s, 0, k)) /\ Observe(FALSE) /\ UNCHANGED wire
        \/ Writer(s) /\ IncrBy(s, 0, "a", 1) /\ Observe(FALSE) /\ UNCHANGED wire

Spec == Init /\ [][Next]_vars

\* The commands the session of SpecSolo queues.
SoloQueueInputs ==
    {Command("SET", <<k, v>>) : k \in Keys, v \in SetValues}
    \cup {Command(n, <<"a">>) : n \in {"GET", "DEL", "INCR"}}
    \cup {Command("INCRBY", <<"a", d>>) : d \in {"+1", "x"}}
    \cup {Command("COMPACT", << >>), Command("SELECT", <<"1">>),
          Command("UNKNOWN", <<"a">>)}

\* As the connection loop does, a session runs a command at once only when it
\* has no transaction open.
Immediate(s) == ~InTransaction(s)

\* One session alone on database 0, with every command.
NextSolo ==
    \E s \in {"c1"} :
        \/ StartTransaction(s) /\ Observe(TRUE) /\ UNCHANGED wire
        \/ (\E c \in SoloQueueInputs :
                Room(s, MaxQueueSolo) /\ QueueCommand(s, c.name, c.args)) /\ Observe(TRUE) /\ UNCHANGED wire
        \/ DiscardTransaction(s) /\ Observe(TRUE) /\ UNCHANGED wire
        \/ ReportTransactionError(s) /\ Observe(TRUE) /\ UNCHANGED wire
        \/ ExecBegin(s) /\ Observe(TRUE) /\ UNCHANGED wire
        \/ ExecSave(s) /\ Observe(TRUE) /\ UNCHANGED wire
        \/ ExecApply(s) /\ Observe(TRUE) /\ UNCHANGED wire
        \/ ExecRead(s) /\ Observe(TRUE) /\ UNCHANGED wire
        \/ ExecAbort(s) /\ Observe(TRUE) /\ UNCHANGED wire
        \/ RollbackStep(s) /\ Observe(TRUE) /\ UNCHANGED wire
        \/ RollbackEnd(s) /\ Observe(TRUE) /\ UNCHANGED wire
        \/ ExecFinish(s) /\ Observe(TRUE) /\ UNCHANGED wire
        \/ (\E k \in Keys, v \in SetValues : Immediate(s) /\ Set(s, 0, k, v)) /\ Observe(TRUE) /\ UNCHANGED wire
        \/ (\E k \in Keys : Immediate(s) /\ Get(s, 0, k)) /\ Observe(TRUE) /\ UNCHANGED wire
        \/ (\E k \in Keys : Immediate(s) /\ Del(s, 0, k)) /\ Observe(TRUE) /\ UNCHANGED wire
        \/ Immediate(s) /\ IncrBy(s, 0, "a", 1) /\ Observe(TRUE) /\ UNCHANGED wire
        \/ Immediate(s) /\ Compact(s, 0) /\ Observe(TRUE) /\ UNCHANGED wire

SpecSolo == Init /\ [][NextSolo]_vars

\* The key the sessions of SpecIncr increment.
IncrKey == "a"

\* What the sessions of SpecIncr find under IncrKey: nothing, the canonical
\* spelling of an integer, or text that is no integer.
IncrStarts == {NilPtr} \cup {PtrTo(FormatInt(n)) : n \in Int64} \cup {PtrTo("x")}

\* A map with the cells given for the two keys.
MapOf(cellA, cellB) ==
    [k \in {x \in Keys : (IF x = "a" THEN cellA ELSE cellB) # NilPtr} |->
        (IF k = "a" THEN cellA ELSE cellB)[1]]

\* Every session has selected the same database, which holds any start value
\* under IncrKey; hist keeps that database as the sessions found it.
InitIncr ==
    /\ \E dbIndex \in DBs, start \in IncrStarts, other \in {NilPtr, PtrTo("x")} :
          /\ clientDBIndices = [s \in Sessions |-> dbIndex]
          /\ data = [i \in DBs |-> IF i = dbIndex THEN MapOf(start, other) ELSE EmptyMap]
          /\ hist = [s \in Sessions |-> [IdleHist EXCEPT !.pre = MapOf(start, other)]]
    /\ transactions = EmptyMap
    /\ transactionMutex = Unlocked
    /\ frame = [s \in Sessions |-> IdleFrame]
    /\ reply = [s \in Sessions |-> NoReply]
    /\ crashed = FALSE
    /\ wire = [s \in Sessions |-> NoResponse]

\* Each session runs one INCR of IncrKey in its database, in any order.
NextIncr ==
    \E s \in Sessions :
        /\ reply[s].op = NoReply.op
        /\ IncrBy(s, GetClientDBIndex(s), IncrKey, 1)
        /\ UNCHANGED <<wire, hist>>

SpecIncr == InitIncr /\ [][NextIncr]_vars

\* ------------------------------------------------------------------ claims

\* The rollback of the ExecuteTransaction of s has restored every saved key.
RolledBack(s) == frame[s].pc = "rollback" /\ frame[s].left = {}

\* The step in which the ExecuteTransaction of s returns after its rollback.
AbortReturns(s) == frame[s].pc = "rollback" /\ frame'[s].pc = "idle" /\ ~crashed'

\* The last call of s returned this from this operation.
Replied(s, op, err) == reply[s].op = op /\ reply[s].err = err

\* The step in which a call op of s returns, seen on its reply.
Returns(s, op) ==
    /\ ~crashed'
    /\ reply'[s].op = op
    /\ reply[s].op # op \/ reply[s].err # reply'[s].err

\* The errors ExecuteTransaction returns after a rollback.
RuntimeErrors ==
    {ErrNotInteger, ErrIntOverflow, ErrSelectInTransaction}
    \cup {ErrUnknownCommand(c.name) : c \in SoloQueueInputs}

\* C1: when an EXEC that aborted in the middle of its batch returns, every key
\* of the captured database has the presence and the value it had when the
\* EXEC began (SpecSolo runs one session, so no other session writes).
C1_RollbackRestoresDatabase ==
    [][\A s \in Sessions :
          AbortReturns(s) => data'[frame[s].dbIndex] = hist[s].pre]_vars

\* C1: an EXEC has rolled back after two commands, one on a key that existed
\* before and one on a key that did not.
C1_Witness ==
    /\ RolledBack("c1")
    /\ frame["c1"].i = 3
    /\ DOMAIN Tx("c1").originalValues = Keys
    /\ "a" \in DOMAIN hist["c1"].pre
    /\ "b" \notin DOMAIN hist["c1"].pre

\* C2: an EXEC of a transaction whose hasErrors flag is set never enters the
\* loop over the queued commands, and the step in which it returns its error
\* changes no key of any database.
C2_FlaggedExecAppliesNothing ==
    [][\A s \in Sessions :
          /\ frame'[s].pc # "idle" => ~transactions'[s][1].hasErrors
          /\ (Returns(s, "ExecuteTransaction")
                /\ reply'[s].err = ErrDiscardedPriorErrors) => data' = data]_vars

\* C2: an EXEC returned the error of a flagged transaction that had writing
\* commands queued, on a database that is not empty.
C2_Witness ==
    /\ Replied("c1", "ExecuteTransaction", ErrDiscardedPriorErrors)
    /\ Len(Tx("c1").commands) > 1
    /\ Tx("c1").commands[1].name = "SET"
    /\ Tx("c1").commands[2].name = "DEL"
    /\ "a" \in DOMAIN data[0]

\* C3: after an EXEC returned the error of a flagged transaction, the session
\* has no entry in the book and the book's mutex is free for its next MULTI.
C3_FlaggedExecRemovesTransaction ==
    \A s \in Sessions :
        Replied(s, "ExecuteTransaction", ErrDiscardedPriorErrors)
            => ~InTransaction(s) /\ transactionMutex = Unlocked

\* C4: after an EXEC that succeeded, InTransaction of the session is false.
C4_SuccessfulExecRemovesTransaction ==
    \A s \in Sessions :
        Replied(s, "ExecuteTransaction", NoError) => ~InTransaction(s)

\* C5: the step in which an EXEC returns after its rollback deletes the
\* session's entry, the entry stays away while that reply is the session's
\* last, and a MULTI that follows succeeds with a new transaction: no queued
\* command, no pre-image, hasErrors false.
C5_AbortRemovesTransaction ==
    [][\A s \in Sessions :
          /\ AbortReturns(s) => s \notin DOMAIN transactions'
          /\ (~crashed' /\ reply'[s].op = "ExecuteTransaction"
                /\ reply'[s].err \in RuntimeErrors) => s \notin DOMAIN transactions'
          /\ (reply[s].op = "ExecuteTransaction" /\ reply[s].err \in RuntimeErrors
                /\ Returns(s, "StartTransaction"))
               => /\ reply'[s].err = NoError
                  /\ transactions'[s] =
                        PtrTo([commands |-> << >>, originalValues |-> EmptyMap,
                               hasErrors |-> FALSE, dbIndex |-> GetClientDBIndex(s)])]_vars

\* C5: an EXEC that saved pre-images returned an overflow error.
C5_Witness ==
    /\ Replied("c1", "ExecuteTransaction", ErrIntOverflow)
    /\ ~InTransaction("c1")
    /\ "a" \in DOMAIN data[0] /\ data[0]["a"] = FormatInt(MaxInt64)

\* C6: the book holds at most one entry per session id, and a MULTI of a
\* session that has an entry returns ErrTransactionInProgress and changes
\* nothing of the book: not the queue, not the flag, not the db index.
C6_OneTransactionPerSession ==
    [][/\ DOMAIN transactions' \subseteq Sessions
       /\ \A s \in Sessions :
             (InTransaction(s) /\ Returns(s, "StartTransaction"))
                => /\ reply'[s].err = ErrTransactionInProgress
                   /\ transactions' = transactions]_vars

\* C6: a MULTI was refused for a session whose transaction has a full queue
\* and the flag set, while another session has a transaction too.
C6_Witness ==
    /\ Replied("c1", "StartTransaction", ErrTransactionInProgress)
    /\ InTransaction("c1") /\ ~IsNil("c1")
    /\ Len(Tx("c1").commands) = MaxQueue
    /\ Tx("c1").hasErrors
    /\ InTransaction("c2")

\* The ExecuteTransaction of s is in its loop over the queued commands.
InLoop(s) == frame[s].pc \in {"run", "apply"}

\* s is between two commands of its batch: one is applied, one is still to come.
MidBatch(s) == InLoop(s) /\ 1 < frame[s].i /\ frame[s].i <= Len(frame[s].commands)

\* The step in which the ExecuteTransaction of s has applied one more command.
Applies(s) == InLoop(s) /\ frame'[s].pc # "idle" /\ frame'[s].i = frame[s].i + 1

\* C7, as stated: while a session is between two commands of its batch, no
\* other session's EXEC applies a command of its batch.
C7_NoForeignBatchBetween ==
    [][\A a, b \in Sessions : (a # b /\ MidBatch(a)) => ~Applies(b)]_vars

\* C7, amended: an EXEC applies the commands of its own batch in queue order,
\* one at a time, each with its effect on the captured database and its result
\* (other sessions' commands, those of another EXEC batch included, may be
\* applied in between: C7_Witness).
C7_OwnQueueOrder ==
    [][\A s \in Sessions :
          /\ (frame[s].pc = "idle" /\ frame'[s].pc # "idle")
                => frame'[s].commands = Tx(s).commands /\ frame'[s].i = 1
          /\ (frame[s].pc # "idle" /\ frame'[s].pc # "idle")
                => /\ frame'[s].commands = frame[s].commands
                   /\ frame'[s].i \in {frame[s].i, frame[s].i + 1}
                   /\ Len(frame'[s].results) = frame'[s].i - 1
          /\ Applies(s)
                => LET cmd == frame[s].commands[frame[s].i]
                       now == StorageGet(data', frame[s].dbIndex, cmd.args[1])
                       out == frame'[s].results[frame[s].i]
                   IN  /\ cmd.name = "SET" => now.ok /\ now.value = cmd.args[2] /\ out = "OK"
                       /\ cmd.name = "DEL" => ~now.ok
                       /\ cmd.name = "INCR" => now.ok /\ now.value = out]_vars

\* C7: two sessions are each between two commands of their batch.
C7_Witness == MidBatch("c1") /\ MidBatch("c2")

\* C8, as stated: when an EXEC returns after its rollback, every key it saved a
\* pre-image of has that pre-image again, whatever other sessions wrote to it
\* before the rollback restored it; and the rollback changes no key that no
\* command of the batch changed.
C8_UnchangedKeysKeepForeignWrites ==
    [][\A s \in Sessions :
          /\ AbortReturns(s)
                => \A k \in (DOMAIN Tx(s).originalValues) \ hist[s].late :
                      Cell(data'[frame[s].dbIndex], k) = Tx(s).originalValues[k]
          /\ (frame[s].pc = "rollback" /\ frame'[s] # frame[s] /\ ~crashed')
                => Changed(frame[s].dbIndex) \subseteq hist[s].own]_vars

\* C8, amended: when an EXEC returns after its rollback, every key it saved a
\* pre-image of has that pre-image again (whatever other sessions wrote to it
\* before the rollback restored it), unless another session wrote it after the
\* restore; and no step of an EXEC changes a key it saved no pre-image of. A
\* key whose INCR failed is saved and restored though the batch did not change
\* it.
C8_RollbackOverwritesForeignWrites ==
    [][\A s \in Sessions :
          /\ AbortReturns(s)
                => \A k \in (DOMAIN Tx(s).originalValues) \ hist[s].late :
                      Cell(data'[frame[s].dbIndex], k) = Tx(s).originalValues[k]
          /\ (frame[s].pc # "idle" /\ frame'[s] # frame[s] /\ ~crashed')
                => \A i \in DBs, k \in Keys :
                      Cell(data'[i], k) # Cell(data[i], k)
                         => i = frame[s].dbIndex /\ k \in DOMAIN Tx(s).originalValues]_vars

\* C8: an EXEC has rolled back key a, which another session wrote between the
\* capture and the restore and which did not exist before; key b, which the
\* batch did not name, holds what the other session set.
C8_Witness ==
    /\ RolledBack("c1")
    /\ DOMAIN Tx("c1").originalValues = {"a"}
    /\ Tx("c1").originalValues["a"] = NilPtr
    /\ "a" \in hist["c1"].mid /\ "a" \notin hist["c1"].late
    /\ DOMAIN data[0] = {"b"}

\* The sessions of SpecIncr whose INCR has returned.
IncrDone == {s \in Sessions : reply[s].op = "IncrBy"}

\* The integer the sessions of SpecIncr found under IncrKey: 0 when absent.
IncrStart ==
    LET pre == hist["c1"].pre
    IN  IF IncrKey \in DOMAIN pre THEN ParseInt(pre[IncrKey]) ELSE [ok |-> TRUE, val |-> 0]

\* C9: once m sessions have each run one INCR of the same key, in any order,
\* and the key started as an integer with room for m increments, the key
\* holds start + m and the m replies are start + 1 .. start + m, all distinct.
C9_NoLostUpdate ==
    LET m  == Cardinality(IncrDone)
        db == GetClientDBIndex("c1")
    IN  (IncrStart.ok /\ IncrStart.val + m <= MaxInt64)
           => /\ \A s \in IncrDone : reply[s].err = NoError
              /\ {reply[s].val : s \in IncrDone} = (IncrStart.val + 1) .. (IncrStart.val + m)
              /\ m > 0 => StorageGet(data, db, IncrKey) =
                             [value |-> FormatInt(IncrStart.val + m), ok |-> TRUE]

\* C9: every session has run its INCR on a key that started at -1.
C9_Witness ==
    /\ IncrDone = Sessions
    /\ IncrStart.ok /\ IncrStart.val = -1
    /\ reply["c1"].val = Cardinality(Sessions) - 1

\* The entries of the session-id to transaction map: which sessions have one,
\* and which of them are nil.
BookShape == [s \in DOMAIN transactions |-> transactions[s] = NilPtr]

\* C10: every step that writes the session-id to transaction map takes the
\* book's mutex, so it happens only when no session holds the mutex.
C10_MapWrittenUnderMutex ==
    [][BookShape' # BookShape => transactionMutex = Unlocked]_vars

\* ------------------------------------------------------ connection handler

ResQueued == "QUEUED"

ResOk == "OK"

ErrWrongArguments(commandName) ==
    "wrong number of arguments for " \o commandName \o " command"

\* A faulty validateCommand: the increment of an INCRBY is not looked at.
validateCommandAnyIncrement(command, args) ==
    IF command \in {"SET", "INCRBY"}
    THEN IF Len(args) # 2 THEN ErrWrongArguments(command) ELSE NoError
    ELSE IF command \in {"GET", "DEL", "INCR"}
    THEN IF Len(args) # 1 THEN ErrWrongArguments(command) ELSE NoError
    ELSE ErrUnknownCommand(command)

\* validateCommand: the arity of the command and, for INCRBY, an increment
\* that parses as an integer.
validateCommand(command, args) ==
    IF command \in {"SET", "INCRBY"}
    THEN IF Len(args) # 2 THEN ErrWrongArguments(command)
         ELSE IF command = "INCRBY" /\ ~ParseInt(args[2]).ok THEN ErrNotInteger
         ELSE NoError
    ELSE IF command \in {"GET", "DEL", "INCR"}
    THEN IF Len(args) # 1 THEN ErrWrongArguments(command) ELSE NoError
    ELSE ErrUnknownCommand(command)

\* writeResponse: one line to the connection of s; a process that died writes
\* nothing.
writeResponse(s, input) ==
    wire' = IF crashed' THEN [t \in Sessions |-> NoResponse]
            ELSE [wire EXCEPT ![s] = input]

\* The response of a handler to the error a Store call returned, or to its
\* success.
ErrorOr(s, text) == IF reply'[s].err # NoError THEN reply'[s].err ELSE text

\* handleMulti
handleMulti(s) ==
    StartTransaction(s) /\ writeResponse(s, ErrorOr(s, ResOk))

\* handleDiscard
handleDiscard(s) ==
    DiscardTransaction(s) /\ writeResponse(s, ErrorOr(s, ResOk))

\* handleExec formats the results: fmt.Sprintf("%d) %s", i+1, result), joined
\* by "\n".
FormatResults(results) ==
    JoinLines([j \in DOMAIN results |-> FormatInt(j) \o ") " \o results[j]])

\* handleExec around one step of ExecuteTransaction: it writes the response
\* when the call has returned.
ExecResponse(s) ==
    IF frame'[s].pc = "idle"
    THEN writeResponse(s, ErrorOr(s, FormatResults(reply'[s].val)))
    ELSE writeResponse(s, NoResponse)

\* executeCommand: a command outside a transaction, in the database the
\* session has selected.
executeCommand(s, command, args) ==
    IF validateCommand(command, args) # NoError
    THEN /\ Ready(s)
         /\ UNCHANGED <<data, clientDBIndices, transactions, transactionMutex, frame,
                        reply, crashed>>
         /\ writeResponse(s, validateCommand(command, args))
    ELSE LET dbIndex == GetClientDBIndex(s)
         IN  \/ /\ command = "SET"
                /\ Set(s, dbIndex, args[1], args[2])
                /\ writeResponse(s, ResOk)
             \/ /\ command = "GET"
                /\ Get(s, dbIndex, args[1])
                /\ writeResponse(s, IF reply'[s].val.ok THEN reply'[s].val.value
                                    ELSE "<nil>")
             \/ /\ command = "DEL"
                /\ Del(s, dbIndex, args[1])
                /\ writeResponse(s, FormatInt(reply'[s].val))
             \/ /\ command \in {"INCR", "INCRBY"}
                /\ IncrBy(s, dbIndex, args[1],
                          IF command = "INCR" THEN 1 ELSE ParseInt(args[2]).val)
                /\ writeResponse(s, ErrorOr(s, FormatInt(reply'[s].val)))

\* handleConnection, for one line that is not MULTI, EXEC or DISCARD: inside a
\* transaction the command is validated and queued, or the transaction is
\* flagged; outside it is executed.
handleConnection(s, command, args) ==
    IF InTransaction(s)
    THEN IF validateCommand(command, args) # NoError
         THEN /\ ReportTransactionError(s)
              /\ writeResponse(s, validateCommand(command, args))
         ELSE /\ QueueCommand(s, command, args)
              /\ writeResponse(s, ErrorOr(s, ResQueued))
    ELSE executeCommand(s, command, args)

\* The lines the session of SpecWire sends, parsed.
WireLines ==
    {Command("SET", <<"a", "x">>), Command("SET", <<"b", "x">>),
     Command("SET", <<"a">>), Command("GET", <<"a">>), Command("DEL", <<"a">>),
     Command("INCR", <<"a">>), Command("INCRBY", <<"a", "1">>),
     Command("INCRBY", <<"a", "x">>), Command("FOO", <<"a">>)}

\* One connection: every line goes through the handler.
NextWire ==
    \E s \in {"c1"} :
        \/ handleMulti(s) /\ Observe(TRUE)
        \/ handleDiscard(s) /\ Observe(TRUE)
        \/ (\E c \in WireLines : Room(s, MaxQueueSolo) /\ handleConnection(s, c.name, c.args))
              /\ Observe(TRUE)
        \/ ExecBegin(s) /\ ExecResponse(s) /\ Observe(TRUE)
        \/ ExecSave(s) /\ ExecResponse(s) /\ Observe(TRUE)
        \/ ExecApply(s) /\ ExecResponse(s) /\ Observe(TRUE)
        \/ ExecRead(s) /\ ExecResponse(s) /\ Observe(TRUE)
        \/ RollbackStep(s) /\ ExecResponse(s) /\ Observe(TRUE)
        \/ RollbackEnd(s) /\ ExecResponse(s) /\ Observe(TRUE)
        \/ ExecFinish(s) /\ ExecResponse(s) /\ Observe(TRUE)

SpecWire == Init /\ [][NextWire]_vars

\* The session has a transaction that MULTI opened and nothing has ended.
OpenTx(s) == InTransaction(s) /\ ~IsNil(s)

\* C11: no command ends the server, and no call that has returned keeps the
\* book's mutex, so that every later line of every session is answered.
C11_ServerStaysResponsive == ~crashed /\ transactionMutex = Unlocked

\* C18: a line that passes validation while the session's transaction is open
\* is answered QUEUED and appended to the end of the queue, and nothing else
\* changes; no line of a session with an open transaction, short of EXEC's
\* batch, changes a database.
C18_ValidCommandIsQueued ==
    [][\A s \in Sessions :
          /\ \A c \in WireLines :
                (OpenTx(s) /\ validateCommand(c.name, c.args) = NoError
                   /\ handleConnection(s, c.name, c.args))
                  => /\ wire'[s] = "QUEUED"
                     /\ transactions' = [transactions EXCEPT ![s] =
                           PtrTo([Tx(s) EXCEPT !.commands = Append(@, c)])]
                     /\ data' = data
                     /\ clientDBIndices' = clientDBIndices
          /\ (OpenTx(s) /\ frame[s].pc = "idle" /\ ~crashed') => data' = data]_vars

\* C18: two commands are queued, the last one answered QUEUED, on a database
\* that holds a key.
C18_Witness ==
    /\ OpenTx("c1")
    /\ wire["c1"] = "QUEUED"
    /\ Tx("c1").commands = <<Command("INCR", <<"a">>), Command("SET", <<"a", "x">>)>>
    /\ "a" \in DOMAIN data[0]

\* The response to a line that fails validation.
ValidationError(c) ==
    IF c.name \notin {"SET", "GET", "DEL", "INCR", "INCRBY"}
    THEN "err unknown command: " \o c.name
    ELSE IF Len(c.args) # (IF c.name \in {"SET", "INCRBY"} THEN 2 ELSE 1)
    THEN "wrong number of arguments for " \o c.name \o " command"
    ELSE "err value is not an integer or out of range"

\* C19: a line that fails validation while the session's transaction is open
\* is answered with the validation error and sets hasErrors; the transaction
\* stays open with the queue it had, and no database changes.
C19_InvalidCommandFlagsTransaction ==
    [][\A s \in Sessions, c \in WireLines :
          (OpenTx(s) /\ validateCommand(c.name, c.args) # NoError
             /\ handleConnection(s, c.name, c.args))
            => /\ wire'[s] = ValidationError(c)
               /\ transactions' = [transactions EXCEPT ![s] =
                     PtrTo([Tx(s) EXCEPT !.hasErrors = TRUE])]
               /\ data' = data]_vars

\* C19: a SET with one argument was refused after a command was queued.
C19_Witness ==
    /\ OpenTx("c1")
    /\ wire["c1"] = "wrong number of arguments for SET command"
    /\ Tx("c1").hasErrors
    /\ Len(Tx("c1").commands) = 1

RECURSIVE InOrder(_, _, _, _)
\* results are the results of the commands applied one after the other, in
\* their order, to a database that holds d, and final is what it holds then.
InOrder(d, commands, results, final) ==
    IF commands = << >> THEN results = << >> /\ d = final
    ELSE /\ results # << >>
         /\ LET cmd  == Head(commands)
                r    == Head(results)
                key  == cmd.args[1]
                then(e) == InOrder(e, Tail(commands), Tail(results), final)
            IN  CASE cmd.name = "SET" ->
                       r = "OK" /\ then(MapPut(d, key, cmd.args[2]))
                  [] cmd.name = "GET" ->
                       r = (IF key \in DOMAIN d THEN d[key] ELSE "nil") /\ then(d)
                  [] cmd.name = "DEL" ->
                       r = (IF key \in DOMAIN d THEN "1" ELSE "0")
                         /\ then(MapDelete(d, key))
                  [] cmd.name \in {"INCR", "INCRBY"} ->
                       LET old == IF key \in DOMAIN d THEN ParseInt(d[key]).val ELSE 0
                           new == old + (IF cmd.name = "INCR" THEN 1
                                         ELSE ParseInt(cmd.args[2]).val)
                       IN  r = FormatInt(new) /\ then(MapPut(d, key, FormatInt(new)))
                  [] cmd.name = "COMPACT" ->
                       (\E order \in Orders(DOMAIN d) :
                            r = StorageCompact([i \in DBs |-> d], 0, order))
                         /\ then(d)
                  [] OTHER -> FALSE

\* C15: an EXEC that succeeds returns one result per queued command, in queue
\* order: OK for SET, the value or nil for GET, 1 or 0 for DEL, the new decimal
\* value for INCR and INCRBY, each computed on the database as the earlier
\* commands of the batch left it; the database ends as that sequence leaves it.
C15_ResultsInQueueOrder ==
    [][\A s \in Sessions :
          ExecFinish(s)
            => /\ reply'[s].err = NoError
               /\ frame[s].commands = Tx(s).commands
               /\ Len(reply'[s].val) = Len(Tx(s).commands)
               /\ InOrder(hist[s].pre, Tx(s).commands, reply'[s].val,
                          data'[frame[s].dbIndex])]_vars

\* C15: INCR a, INCR a, GET a succeeded on a database that had no key a.
C15_Witness ==
    /\ Replied("c1", "ExecuteTransaction", NoError)
    /\ reply["c1"].val = <<"1", "2", "2">>
    /\ data[0]["a"] = "2"

\* C16: a DISCARD of a session with an open transaction is answered OK, removes
\* the session's entry from the book and changes no database and no db index.
C16_DiscardDropsQueue ==
    [][\A s \in Sessions :
          (OpenTx(s) /\ handleDiscard(s))
            => /\ wire'[s] = "OK"
               /\ reply'[s].err = NoError
               /\ data' = data
               /\ clientDBIndices' = clientDBIndices
               /\ ~InTransaction(s)']_vars

\* C16: a DISCARD was answered OK and left a database that holds a key.
C16_Witness ==
    /\ reply["c1"].op = "DiscardTransaction"
    /\ wire["c1"] = "OK"
    /\ ~InTransaction("c1")
    /\ "a" \in DOMAIN data[0]

\* C17: QueueCommand, DiscardTransaction and ExecuteTransaction of a session
\* that has no open transaction, none started or the last one ended, return
\* ErrNoTransactionInProgress and change neither the book nor a database.
C17_NoTransactionInProgress ==
    [][\A s \in Sessions :
          (/\ ~OpenTx(s)
           /\ \/ crashed'
              \/ reply'[s].op \in {"QueueCommand", "DiscardTransaction",
                                   "ExecuteTransaction"}
           /\ \/ \E c \in SoloQueueInputs : QueueCommand(s, c.name, c.args)
              \/ DiscardTransaction(s)
              \/ ExecBegin(s))
            => /\ ~crashed'
               /\ reply'[s].err = ErrNoTransactionInProgress
               /\ transactions' = transactions
               /\ data' = data]_vars

\* ------------------------------------------------ databases and disconnect

\* A faulty end of a connection: the session's transaction is left in the book.
DisconnectKeepsTransaction(s) ==
    /\ Ready(s)
    /\ clientDBIndices' = MapDelete(clientDBIndices, s)
    /\ frame' = [frame EXCEPT ![s].pc = "closed"]
    /\ reply' = [reply EXCEPT ![s] = Return("Disconnect", NoError, << >>)]
    /\ UNCHANGED <<data, transactions, transactionMutex, crashed>>

\* The end of a connection, on EOF or a read error: DiscardTransaction if the
\* session has a transaction, then RemoveClient. reply keeps the calls made.
Disconnect(s) ==
    /\ Ready(s)
    /\ InTransaction(s) => transactionMutex = Unlocked
    /\ transactions' = IF InTransaction(s) THEN MapDelete(transactions, s)
                       ELSE transactions
    /\ clientDBIndices' = MapDelete(clientDBIndices, s)
    /\ frame' = [frame EXCEPT ![s].pc = "closed"]
    /\ reply' = [reply EXCEPT ![s] =
          Return("Disconnect", NoError,
                 IF InTransaction(s) THEN <<"DiscardTransaction", "RemoveClient">>
                 ELSE <<"RemoveClient">>)]
    /\ UNCHANGED <<data, transactionMutex, crashed>>

\* The commands the session of SpecDb queues.
DbQueueInputs ==
    {Command("SET", <<"a", "x">>), Command("SET", <<"b", "x">>),
     Command("INCR", <<"a">>), Command("SELECT", <<"1">>)}

\* One caller of the Store on every database: it selects a database at any
\* time, writes to any database between its transactions, and disconnects.
NextDb ==
    \E s \in {"c1"} :
        \/ (\E i \in DBs : SetClientDBIndex(s, i)) /\ Observe(TRUE) /\ UNCHANGED wire
        \/ StartTransaction(s) /\ Observe(TRUE) /\ UNCHANGED wire
        \/ (\E c \in DbQueueInputs :
                Room(s, MaxQueueSolo) /\ QueueCommand(s, c.name, c.args))
              /\ Observe(TRUE) /\ UNCHANGED wire
        \/ DiscardTransaction(s) /\ Observe(TRUE) /\ UNCHANGED wire
        \/ ExecBegin(s) /\ Observe(TRUE) /\ UNCHANGED wire
        \/ ExecSave(s) /\ Observe(TRUE) /\ UNCHANGED wire
        \/ ExecApply(s) /\ Observe(TRUE) /\ UNCHANGED wire
        \/ ExecAbort(s) /\ Observe(TRUE) /\ UNCHANGED wire
        \/ RollbackStep(s) /\ Observe(TRUE) /\ UNCHANGED wire
        \/ RollbackEnd(s) /\ Observe(TRUE) /\ UNCHANGED wire
        \/ ExecFinish(s) /\ Observe(TRUE) /\ UNCHANGED wire
        \/ (\E i \in DBs : Immediate(s) /\ Set(s, i, "a", "x"))
              /\ Observe(TRUE) /\ UNCHANGED wire
        \/ (\E i \in DBs : Immediate(s) /\ Del(s, i, "a"))
              /\ Observe(TRUE) /\ UNCHANGED wire
        \/ Disconnect(s) /\ Observe(TRUE) /\ UNCHANGED wire

SpecDb == Init /\ [][NextDb]_vars

\* The session is inside ExecuteTransaction before or after the step.
InExec(s) == frame[s].pc # "idle" \/ frame'[s].pc \in {"run", "apply", "rollback"}

C13_ExecStaysInCapturedDatabase ==
    [][\A s \in Sessions :
          /\ (reply'[s].op = "StartTransaction" /\ reply'[s].err = NoError
                /\ frame[s].pc = "idle")
               => Tx(s)'.dbIndex = GetClientDBIndex(s)
          /\ (OpenTx(s) /\ OpenTx(s)') => Tx(s)'.dbIndex = Tx(s).dbIndex
          /\ InExec(s) =>
               \A i \in DBs \ {Tx(s).dbIndex} : data'[i] = data[i]
          /\ (frame[s].pc = "run" /\ frame'[s].pc = "apply") =>
               Tx(s)'.originalValues =
                  MapPut(Tx(s).originalValues, Cmd(s).args[1],
                         Cell(data[Tx(s).dbIndex], Cmd(s).args[1]))
          /\ (frame[s].pc = "run" /\ frame'[s].pc = "idle") =>
               InOrder(hist[s].pre, Tx(s).commands, reply'[s].val,
                       data'[Tx(s).dbIndex])
          /\ (frame[s].pc = "rollback" /\ frame'[s].pc = "idle") =>
               data'[Tx(s).dbIndex] = hist[s].pre]_vars

\* C13: an EXEC has applied a command to database 1, the index captured at
\* MULTI, while the registry names database 0 for the session.
C13_Witness ==
    /\ frame["c1"].pc = "run" /\ frame["c1"].i = 2
    /\ Tx("c1").dbIndex = 1
    /\ "c1" \in DOMAIN clientDBIndices /\ clientDBIndices["c1"] = 0
    /\ "b" \in DOMAIN data[1]
    /\ data[0] = EmptyMap

\* The place of the first SELECT in a queue, 0 when it holds none.
FirstSelect(commands) ==
    IF \E j \in DOMAIN commands : commands[j].name = "SELECT"
    THEN CHOOSE j \in DOMAIN commands :
            /\ commands[j].name = "SELECT"
            /\ \A h \in 1 .. (j - 1) : commands[h].name # "SELECT"
    ELSE 0

\* C14: queueing a SELECT and running a batch never change the registry; an
\* EXEC whose queue holds a SELECT never succeeds, never runs a command behind
\* the SELECT, and when it reaches the SELECT it returns ErrSelectInTransaction
\* with the database as it was before the EXEC.
C14_SelectInTransactionAborts ==
    [][\A s \in Sessions :
          /\ (OpenTx(s) /\ OpenTx(s)'
                /\ Tx(s)'.commands = Append(Tx(s).commands, Command("SELECT", <<"1">>)))
               => clientDBIndices' = clientDBIndices
          /\ InExec(s) => clientDBIndices' = clientDBIndices
          /\ (InExec(s) /\ FirstSelect(Tx(s).commands) # 0) =>
               /\ frame'[s].i <= FirstSelect(Tx(s).commands)
               /\ (frame'[s].pc = "idle" /\ ~crashed') => reply'[s].err # NoError
               /\ (frame[s].pc = "run" /\ frame[s].i = FirstSelect(Tx(s).commands)) =>
                     frame'[s].pc = "rollback" /\ frame'[s].err = ErrSelectInTransaction
               /\ (frame[s].pc = "rollback" /\ frame'[s].pc = "idle") =>
                     /\ reply'[s].err = frame[s].err
                     /\ data'[Tx(s).dbIndex] = hist[s].pre
                     /\ ~InTransaction(s)']_vars

\* C14: an EXEC reached the SELECT behind two writing commands and its
\* rollback has restored both keys.
C14_Witness ==
    /\ frame["c1"].pc = "rollback" /\ frame["c1"].err = ErrSelectInTransaction
    /\ frame["c1"].i = 3 /\ frame["c1"].left = {}
    /\ DOMAIN Tx("c1").originalValues = {"a", "b"}
    /\ data[frame["c1"].dbIndex] = hist["c1"].pre

\* ------------------------------------------------------ storage primitives

\* The values the caller of SpecStore sets: a text that is no number, and the
\* two ends of the integer range, one of them with a sign.
StoreValues == {"x", "+" \o FormatInt(MaxInt64), FormatInt(MinInt64)}

\* The values the caller sets for a key of a database: the integers go to the
\* key it increments.
ValuesFor(i, k) == IF k = IncrKey THEN StoreValues ELSE SetValues

\* The increments the caller uses on a database.
IncrementsFor(i) == IF i = 0 THEN Int64 ELSE {1}

\* One caller of the storage primitives, on every database and key; it
\* increments one key, in database 0 by every increment of the integer range.
NextStore ==
    \E s \in {"c1"} :
        \/ (\E i \in DBs, k \in Keys : \E v \in ValuesFor(i, k) : Set(s, i, k, v))
              /\ UNCHANGED <<wire, hist>>
        \/ (\E i \in DBs, k \in Keys : Get(s, i, k)) /\ UNCHANGED <<wire, hist>>
        \/ (\E i \in DBs, k \in Keys : Del(s, i, k)) /\ UNCHANGED <<wire, hist>>
        \/ (\E i \in DBs : \E d \in IncrementsFor(i) : IncrBy(s, i, IncrKey, d))
              /\ UNCHANGED <<wire, hist>>
        \/ (\E i \in DBs : Compact(s, i)) /\ UNCHANGED <<wire, hist>>

SpecStore == Init /\ [][NextStore]_vars

\* The integer a key stands for when IncrBy reads it: 0 for an absent key.
Stored(d, dbIndex, key) ==
    IF key \in DOMAIN d[dbIndex] THEN ParseInt(d[dbIndex][key]) ELSE [ok |-> TRUE, val |-> 0]

\* C20: an IncrBy on a key that stands for an integer, whose exact sum is
\* outside the integer range, returns ErrIntOverflow and 0 and leaves every
\* database as it was; when the exact sum is inside the range it is what the
\* call returns and stores: the stored value never wraps around.
C20_OverflowLeavesValue ==
    [][\A i \in DBs, k \in Keys, d \in Int64 :
          (reply'["c1"].op = "IncrBy" /\ Stored(data, i, k).ok /\ IncrBy("c1", i, k, d))
            => LET sum == Stored(data, i, k).val + d
               IN  IF sum \in Int64
                   THEN /\ reply'["c1"].err = NoError
                        /\ reply'["c1"].val = sum
                        /\ Stored(data', i, k) = [ok |-> TRUE, val |-> sum]
                   ELSE /\ reply'["c1"].err = ErrIntOverflow
                        /\ reply'["c1"].val = 0
                        /\ data' = data]_vars

\* C20: an IncrBy returned the overflow error on a key that holds the least
\* integer.
C20_Witness ==
    /\ Replied("c1", "IncrBy", ErrIntOverflow)
    /\ reply["c1"].val = 0
    /\ "a" \in DOMAIN data[0] /\ data[0]["a"] = FormatInt(MinInt64)

\* The texts that spell an integer of the range.
Numerals == UNION {Spellings(n) : n \in Int64}

\* The step is the return of the named primitive to the caller of SpecStore.
Did(op) == reply'["c1"].op = op

\* C21: an IncrBy on a key that holds a numeral s, or on an absent key (s = 0),
\* whose sum s + d is inside the integer range, returns s + d and leaves the
\* key holding the canonical decimal text of s + d; nothing else changes.
C21_IncrByStoresSum ==
    [][\A i \in DBs, k \in Keys, d \in Int64 :
          (/\ Did("IncrBy")
           /\ k \in DOMAIN data[i] => data[i][k] \in Numerals
           /\ IncrBy("c1", i, k, d)
           /\ Stored(data, i, k).val + d \in Int64)
            => LET sum == Stored(data, i, k).val + d
               IN  /\ reply'["c1"].err = NoError
                   /\ reply'["c1"].val = sum
                   /\ data' = [data EXCEPT ![i] = MapPut(@, k, ToString(sum))]]_vars

\* C21: an IncrBy made the greatest integer out of a signed numeral, next to
\* another key.
C21_Witness ==
    /\ Replied("c1", "IncrBy", NoError)
    /\ reply["c1"].val = MaxInt64
    /\ data[0] = MapPut(MapPut(EmptyMap, "a", ToString(MaxInt64)), "b", "x")

\* C22: an IncrBy on a key whose value is no numeral returns ErrNotInteger and
\* 0, and no database changes.
C22_NotIntegerLeavesValue ==
    [][\A i \in DBs, k \in Keys, d \in Int64 :
          (/\ Did("IncrBy")
           /\ k \in DOMAIN data[i] /\ data[i][k] \notin Numerals
           /\ IncrBy("c1", i, k, d))
            => /\ reply'["c1"].err = ErrNotInteger
               /\ reply'["c1"].val = 0
               /\ data' = data]_vars

\* C22: an IncrBy returned ErrNotInteger for a key that holds x.
C22_Witness ==
    /\ Replied("c1", "IncrBy", ErrNotInteger)
    /\ reply["c1"].val = 0
    /\ "a" \in DOMAIN data[0] /\ data[0]["a"] = "x"

\* C23: after Set(i, k, v) the key k of database i is present with value v,
\* whatever it held; Get(i, k) returns the value and true for a present key and
\* false for an absent one; every key is absent at the start and after a Del.
C23_GetReturnsLastSet ==
    [][\A i \in DBs, k \in Keys :
          /\ \A v \in StoreValues :
                (Did("Set") /\ Set("c1", i, k, v))
                  => k \in DOMAIN data'[i] /\ data'[i][k] = v
          /\ (Did("Get") /\ Get("c1", i, k))
               => /\ reply'["c1"].val.ok = (k \in DOMAIN data[i])
                  /\ k \in DOMAIN data[i] => reply'["c1"].val.value = data[i][k]
                  /\ data' = data
          /\ (Did("Del") /\ Del("c1", i, k)) => k \notin DOMAIN data'[i]
          /\ (Did("none") \/ Did("Compact")) => data' = data]_vars

\* C23: a Get returned the least integer's numeral, set over another value, from
\* a database whose other key is absent.
C23_Witness ==
    /\ reply["c1"].op = "Get"
    /\ reply["c1"].val.ok /\ reply["c1"].val.value = ToString(MinInt64)
    /\ data[1] = MapPut(EmptyMap, "a", ToString(MinInt64))
    /\ data[0] = MapPut(EmptyMap, "a", "x")

\* C24: Del(i, k) returns 1 when k was present in database i and 0 when it was
\* not; k is absent afterwards and every other key is as it was.
C24_DelCountsPresence ==
    [][\A i \in DBs, k \in Keys :
          (Did("Del") /\ Del("c1", i, k))
            => /\ reply'["c1"].val = (IF k \in DOMAIN data[i] THEN 1 ELSE 0)
               /\ k \notin DOMAIN data'[i]
               /\ data' = [data EXCEPT ![i] = MapDelete(@, k)]]_vars

\* C24: a Del of an absent key returned 0.
C24_Witness ==
    /\ reply["c1"].op = "Del" /\ reply["c1"].val = 0
    /\ data[0] = MapPut(EmptyMap, "b", "x")

\* C25: a Set, Del or IncrBy on database i leaves every other database as it
\* was, a key of the same name included.
C25_DatabasesIsolated ==
    [][\A i \in DBs, k \in Keys :
          (\/ Did("Set") /\ \E v \in StoreValues : Set("c1", i, k, v)
           \/ Did("Del") /\ Del("c1", i, k)
           \/ Did("IncrBy") /\ \E d \in Int64 : IncrBy("c1", i, k, d))
            => \A j \in DBs \ {i} : data'[j] = data[j]]_vars

\* C25: the key a holds x in database 0 and a number that was incremented in
\* database 1.
C25_Witness ==
    /\ Replied("c1", "IncrBy", NoError)
    /\ data[0] = MapPut(EmptyMap, "a", "x")
    /\ data[1] = MapPut(EmptyMap, "a", "2")

\* The line of Compact for a key of a database.
Line(i, k) == "SET " \o k \o " " \o data[i][k]

\* The texts Compact may return for a database of at most two keys.
Dumps(i) ==
    CASE DOMAIN data[i] = {} -> {""}
      [] DOMAIN data[i] = {"a"} -> {Line(i, "a")}
      [] DOMAIN data[i] = {"b"} -> {Line(i, "b")}
      [] OTHER -> {Line(i, "a") \o "\n" \o Line(i, "b"),
                   Line(i, "b") \o "\n" \o Line(i, "a")}

\* C28: Compact(i) returns the empty text for an empty database, the line of
\* the key for a database of one key, and the lines of both keys, in either
\* order and joined by a newline, for a database of two; each line carries the
\* value the key holds now; no database changes.
C28_CompactDumpsDatabase ==
    [][\A i \in DBs :
          (Did("Compact") /\ Compact("c1", i))
            => data' = data /\ reply'["c1"].val \in Dumps(i)]_vars

\* C28: Compact returned two lines, one with a value that was set over another
\* and then incremented.
C28_Witness ==
    /\ reply["c1"].op = "Compact"
    /\ reply["c1"].val = "SET b x\nSET a -3"
    /\ data[0] = MapPut(MapPut(EmptyMap, "a", "-3"), "b", "x")

\* ------------------------------------------------------------------ SELECT

ErrDBIndexOutOfRange == "err DB index is out of range"

\* Store.GetDatabasesCount
GetDatabasesCount == NumDatabases

\* The dispatcher's SELECT outside a transaction: one argument that parses as
\* an integer inside [0, GetDatabasesCount) goes to SetClientDBIndex and is
\* answered OK; anything else is answered with its error and changes nothing.
handleSelect(s, args) ==
    LET err == IF Len(args) # 1 THEN ErrWrongArguments("SELECT")
               ELSE IF ~ParseInt(args[1]).ok THEN ErrNotInteger
               ELSE IF ParseInt(args[1]).val < 0
                       \/ ParseInt(args[1]).val >= GetDatabasesCount
               THEN ErrDBIndexOutOfRange
               ELSE NoError
    IN  IF err # NoError
        THEN /\ Ready(s)
             /\ reply' = [reply EXCEPT ![s] = Return("SELECT", err, << >>)]
             /\ UNCHANGED <<data, clientDBIndices, transactions, transactionMutex,
                            frame, crashed>>
             /\ writeResponse(s, err)
        ELSE /\ SetClientDBIndex(s, ParseInt(args[1]).val)
             /\ writeResponse(s, ResOk)

\* The arguments of the SELECT lines the session of SpecSelect sends: below
\* the range, inside it, the first index above it, no number, no argument.
SelectArgs ==
    {<<"-1">>, <<"0">>, <<"+1">>, <<FormatInt(NumDatabases)>>, <<"x">>, << >>}

\* The other lines the session of SpecSelect sends.
SelectLines ==
    {Command("SET", <<"a", "x">>), Command("SET", <<"b", "x">>),
     Command("GET", <<"a">>), Command("DEL", <<"a">>)}

\* One connection that selects databases and works on the one selected.
NextSelect ==
    \E s \in {"c1"} :
        \/ (\E args \in SelectArgs : handleSelect(s, args)) /\ UNCHANGED hist
        \/ (\E c \in SelectLines : executeCommand(s, c.name, c.args)) /\ UNCHANGED hist

SpecSelect == Init /\ [][NextSelect]_vars

CallGetClientDBIndex(s) ==
    /\ Ready(s)
    /\ reply' = [reply EXCEPT ![s] =
          Return("GetClientDBIndex", NoError, <<GetClientDBIndex(s)>>)]
    /\ UNCHANGED <<data, clientDBIndices, transactions, transactionMutex, frame,
                   crashed>>

\* Three callers of the registry: each sets, reads and removes its own index.
NextRegistry ==
    \E s \in Sessions :
        \/ CallGetClientDBIndex(s) /\ UNCHANGED <<wire, hist>>
        \/ (\E i \in DBs : SetClientDBIndex(s, i)) /\ UNCHANGED <<wire, hist>>
        \/ RemoveClient(s) /\ UNCHANGED <<wire, hist>>

SpecRegistry == Init /\ [][NextRegistry]_vars

\* C27: GetClientDBIndex of a session is the index of its last
\* SetClientDBIndex, and 0 after its RemoveClient and at the start; a
\* SetClientDBIndex or RemoveClient of one session leaves the entry of every
\* other session, and so what GetClientDBIndex returns for it, as it was.
C27_RegistryPerSession ==
    [][\A s \in Sessions :
          LET others == \A t \in Sessions \ {s} :
                           /\ (t \in DOMAIN clientDBIndices') = (t \in DOMAIN clientDBIndices)
                           /\ GetClientDBIndex(t)' = GetClientDBIndex(t)
          IN  /\ \A i \in DBs :
                    SetClientDBIndex(s, i) => GetClientDBIndex(s)' = i /\ others
              /\ RemoveClient(s)
                   => /\ GetClientDBIndex(s)' = 0
                      /\ s \notin DOMAIN clientDBIndices'
                      /\ others
              /\ CallGetClientDBIndex(s)
                   => /\ reply'[s].val = <<IF s \in DOMAIN clientDBIndices
                                            THEN clientDBIndices[s] ELSE 0>>
                      /\ clientDBIndices' = clientDBIndices
              /\ reply[s].op = "none" => s \notin DOMAIN clientDBIndices]_vars

\* C27: one session removed its index while another keeps index 1, and a third
\* that was never set read 0.
C27_Witness ==
    /\ reply["c1"].op = "RemoveClient" /\ GetClientDBIndex("c1") = 0
    /\ "c1" \notin DOMAIN clientDBIndices
    /\ "c2" \in DOMAIN clientDBIndices /\ clientDBIndices["c2"] = 1
    /\ reply["c3"].op = "GetClientDBIndex" /\ reply["c3"].val = <<0>>
    /\ "c3" \notin DOMAIN clientDBIndices

\* ------------------------------------------------- book mutex, pre-images

\* C29: when no session is inside a book operation, the book's mutex is free.
C29_MutexFreeBetweenOperations ==
    (\A s \in Sessions : frame[s].pc = "idle") => transactionMutex = Unlocked

\* The keys of the writing commands among the first n commands of the batch.
WrittenKeys(s, n) ==
    {frame[s].commands[j].args[1] :
        j \in {h \in 1 .. n : h <= Len(frame[s].commands)
                              /\ Mutating(frame[s].commands[h])}}

\* C30: while an EXEC of a session that runs alone is in its loop, the
\* pre-images are those of the keys of the writing commands it has reached,
\* and each is the state the key had before the batch's first command on it,
\* which is its state when the EXEC began; the step that records a pre-image
\* records the state of a key that had none, and no other step of the EXEC
\* changes the pre-images: not a later writing command on the key, not a GET and
\* not a COMPACT.
C30_PreImageOfFirstMutation ==
    [][\A s \in Sessions :
          /\ (frame[s].pc \in {"run", "apply"}) =>
                /\ DOMAIN Tx(s).originalValues =
                      WrittenKeys(s, IF frame[s].pc = "apply" THEN frame[s].i
                                     ELSE frame[s].i - 1)
                /\ \A k \in DOMAIN Tx(s).originalValues :
                      Tx(s).originalValues[k] = Cell(hist[s].pre, k)
          /\ (frame[s].pc = "run" /\ frame'[s].pc = "apply") =>
                /\ Cmd(s).args[1] \notin DOMAIN Tx(s).originalValues
                /\ Tx(s)'.originalValues =
                      MapPut(Tx(s).originalValues, Cmd(s).args[1],
                             Cell(data[Tx(s).dbIndex], Cmd(s).args[1]))
          /\ (InLoop(s) /\ InLoop(s)' /\ ~(frame[s].pc = "run" /\ frame'[s].pc = "apply"))
               => Tx(s)'.originalValues = Tx(s).originalValues]_vars

\* C30: the batch is behind two INCR of a key that held 1 and a GET: the
\* pre-image of the key is still 1, and it is the only one.
C30_Witness ==
    /\ frame["c1"].pc = "run" /\ frame["c1"].i = 4
    /\ frame["c1"].commands[1].name = "INCR" /\ frame["c1"].commands[2].name = "INCR"
    /\ frame["c1"].commands[3].name = "GET"
    /\ Tx("c1").originalValues = MapPut(EmptyMap, "a", PtrTo("1"))
    /\ data[0]["a"] = "3"

\* ------------------------------------------ batch against immediate mode

\* A command as executeCommand runs it outside a transaction, in database
\* dbIndex of d: the storage it leaves, the error of the Store call and the
\* text of the response, an absent GET rendered as nil.
ImmediateResponse(d, dbIndex, cmd) ==
    CASE cmd.name = "SET" ->
           [data |-> StorageSet(d, dbIndex, cmd.args[1], cmd.args[2]),
            err |-> NoError, text |-> ResOk]
      [] cmd.name = "GET" ->
           LET got == StorageGet(d, dbIndex, cmd.args[1])
           IN  [data |-> d, err |-> NoError,
                text |-> IF got.ok THEN got.value ELSE "nil"]
      [] cmd.name = "DEL" ->
           LET r == StorageDel(d, dbIndex, cmd.args[1])
           IN  [data |-> r.data, err |-> NoError, text |-> FormatInt(r.n)]
      [] cmd.name \in {"INCR", "INCRBY"} ->
           LET r == StorageIncrBy(d, dbIndex, cmd.args[1],
                                  IF cmd.name = "INCR" THEN 1
                                  ELSE ParseInt(cmd.args[2]).val)
           IN  [data |-> r.data, err |-> r.err,
                text |-> IF r.err = NoError THEN FormatInt(r.val) ELSE r.err]

RECURSIVE OneAfterTheOther(_, _, _)
\* The commands run one after the other in immediate mode on database dbIndex
\* of d: the storage they leave and their responses, in order.
OneAfterTheOther(d, dbIndex, commands) ==
    IF commands = << >> THEN [data |-> d, texts |-> << >>, ok |-> TRUE]
    ELSE LET r    == ImmediateResponse(d, dbIndex, Head(commands))
             rest == OneAfterTheOther(r.data, dbIndex, Tail(commands))
         IN  [data |-> rest.data, texts |-> <<r.text>> \o rest.texts,
              ok |-> r.err = NoError /\ rest.ok]

\* The commands that executeCommand runs.
ImmediateNames == {"SET", "GET", "DEL", "INCR", "INCRBY"}

EdgeIncrements == {MinInt64, 0}

\* checkIntegerOverflow applied to a pair of machine integers; reply keeps the
\* pair and the outcome.
CallCheckIntegerOverflow(s, currentValue, increment) ==
    /\ Ready(s)
    /\ reply' = [reply EXCEPT ![s] =
          Return("checkIntegerOverflow", checkIntegerOverflow(currentValue, increment),
                 <<currentValue, increment>>)]
    /\ UNCHANGED <<data, clientDBIndices, transactions, transactionMutex, frame,
                   crashed, wire, hist>>

\* The check applied to every pair of machine integers, and next to it to the
\* pairs with an edge increment.
NextOverflow ==
    \/ \E currentValue \in Int64, increment \in Int64 :
          CallCheckIntegerOverflow("c1", currentValue, increment)
    \/ \E currentValue \in Int64, increment \in EdgeIncrements :
          CallCheckIntegerOverflow("c2", currentValue, increment)

SpecOverflow == Init /\ [][NextOverflow]_vars

\* C32: checkIntegerOverflow returns ErrIntOverflow exactly when the exact sum
\* of the two machine integers is outside the machine range, and every
\* difference it evaluates on the way is inside the range.
C32_OverflowExactlyOutOfRange ==
    \A s \in Sessions :
        reply[s].op = "checkIntegerOverflow" =>
            LET currentValue == reply[s].val[1]
                increment    == reply[s].val[2]
            IN  /\ (reply[s].err = ErrIntOverflow)
                      <=> (currentValue + increment \notin Int64)
                /\ reply[s].err \in {ErrIntOverflow, NoError}
                /\ OverflowTerms(currentValue, increment) \subseteq Int64

\* C32: the check refused the smallest value incremented by the smallest value
\* and passed the largest value incremented by 0.
C32_Witness ==
    /\ reply["c1"] = Return("checkIntegerOverflow", ErrIntOverflow, <<MinInt64, MinInt64>>)
    /\ reply["c2"] = Return("checkIntegerOverflow", NoError, <<MaxInt64, 0>>)

\* --------------------------------------------------- flagging the book

\* C33: ReportTransactionError sets hasErrors on the open transaction of the
\* session and changes nothing else; for a session that has no open
\* transaction it returns without a change of the book, of a database, of the
\* registry or of the mutex.
C33_ReportTransactionErrorFrame ==
    [][\A s \in Sessions :
          (/\ crashed' \/ reply'[s].op = "ReportTransactionError"
           /\ ReportTransactionError(s))
            => /\ ~crashed'
               /\ transactions' =
                     IF OpenTx(s)
                     THEN [transactions EXCEPT ![s] = PtrTo([Tx(s) EXCEPT !.hasErrors = TRUE])]
                     ELSE transactions
               /\ data' = data
               /\ clientDBIndices' = clientDBIndices
               /\ transactionMutex' = transactionMutex]_vars

\* -------------------------------------------------------------- validation

\* The words of the lines of SpecValidate: a text that is no integer and one
\* that is.
ValidateWords == {"a", "1"}

\* The most arguments a line of SpecValidate has.
MaxArgs == 3

\* The lines the session of SpecValidate sends, parsed: every name with every
\* sequence of up to MaxArgs words.
ValidateLines ==
    {Command(n, args) :
        n \in {"SET", "GET", "DEL", "INCR", "INCRBY", "COMPACT", "FOO"},
        args \in UNION {[1 .. len -> ValidateWords] : len \in 0 .. MaxArgs}}

\* handleConnection for a line of a session outside a transaction; hist keeps
\* the line.
SendLine(s, c) ==
    /\ Immediate(s)
    /\ executeCommand(s, c.name, c.args)
    /\ hist' = [hist EXCEPT ![s] = c]

\* One connection in normal mode.
NextValidate == \E c \in ValidateLines : SendLine("c1", c)

SpecValidate == Init /\ [][NextValidate]_vars

\* The number of arguments each command takes.
Arity == [n \in {"SET", "GET", "DEL", "INCR", "INCRBY"} |->
             IF n \in {"SET", "INCRBY"} THEN 2 ELSE 1]

\* What the validation is to answer for a line.
Expected(c) ==
    IF c.name \notin DOMAIN Arity THEN ErrUnknownCommand(c.name)
    ELSE IF Len(c.args) # Arity[c.name] THEN ErrWrongArguments(c.name)
    ELSE IF c.name = "INCRBY" /\ c.args[2] \notin Numerals THEN ErrNotInteger
    ELSE NoError

\* The Store call that runs a valid command.
Primitive(name) ==
    CASE name = "SET" -> "Set" [] name = "GET" -> "Get" [] name = "DEL" -> "Del"
      [] OTHER -> "IncrBy"

ErrMismatchedQuotes == "ERR syntax, mismatched quotes"

ErrEmptyCommand == "ERR empty command"

ErrMissingArgs == "ERR missing args"

\* A line is a sequence of runes, each a one-character string: a letter, a
\* blank, a double quote and a backslash.
Runes == {"a", " ", "\"", "\\"}

\* The longest line of SpecParse.
MaxLine == 5

\* unicode.IsSpace, on the runes of the model.
IsSpace(char) == char = " "

\* strings.ToUpper, rune by rune, on the letters of the model.
ToUpperRune(char) ==
    CASE char = "a" -> "A" [] char = "s" -> "S" [] char = "e" -> "E"
      [] char = "t" -> "T" [] char = "k" -> "K" [] OTHER -> char

ToUpper(str) == [j \in DOMAIN str |-> ToUpperRune(str[j])]

\* The locals of ParseCommandLine before the first rune.
ScanInit == [args |-> << >>, curr |-> << >>, inQuotes |-> FALSE, escaped |-> FALSE]

\* A faulty round: a blank ends the token inside quotes too.
ScanRuneQuotesSplit(st, char) ==
    IF st.escaped THEN [st EXCEPT !.curr = Append(@, char), !.escaped = FALSE]
    ELSE IF char = "\\" THEN [st EXCEPT !.escaped = TRUE]
    ELSE IF char = "\"" THEN [st EXCEPT !.inQuotes = ~@]
    ELSE IF IsSpace(char)
    THEN IF Len(st.curr) > 0
         THEN [st EXCEPT !.args = Append(@, st.curr), !.curr = << >>]
         ELSE st
    ELSE [st EXCEPT !.curr = Append(@, char)]

\* A faulty round: a blank outside quotes ends the token even when the token
\* is empty.
ScanRuneEmptyToken(st, char) ==
    IF st.escaped THEN [st EXCEPT !.curr = Append(@, char), !.escaped = FALSE]
    ELSE IF char = "\\" THEN [st EXCEPT !.escaped = TRUE]
    ELSE IF char = "\"" THEN [st EXCEPT !.inQuotes = ~@]
    ELSE IF IsSpace(char) /\ ~st.inQuotes
    THEN [st EXCEPT !.args = Append(@, st.curr), !.curr = << >>]
    ELSE [st EXCEPT !.curr = Append(@, char)]

\* One round of the loop of ParseCommandLine: the switch on the rune, its
\* cases tried in order.
ScanRune(st, char) ==
    IF st.escaped THEN [st EXCEPT !.curr = Append(@, char), !.escaped = FALSE]
    ELSE IF char = "\\" THEN [st EXCEPT !.escaped = TRUE]
    ELSE IF char = "\"" THEN [st EXCEPT !.inQuotes = ~@]
    ELSE IF IsSpace(char) /\ ~st.inQuotes
    THEN IF Len(st.curr) > 0
         THEN [st EXCEPT !.args = Append(@, st.curr), !.curr = << >>]
         ELSE st
    ELSE [st EXCEPT !.curr = Append(@, char)]

RECURSIVE Scan(_, _)
\* The loop of ParseCommandLine over the runes of the line.
Scan(st, line) ==
    IF line = << >> THEN st ELSE Scan(ScanRune(st, Head(line)), Tail(line))

\* ParseCommandLine: the command, the arguments and the error.
ParseCommandLine(line) ==
    LET st   == Scan(ScanInit, line)
        args == IF Len(st.curr) > 0 THEN Append(st.args, st.curr) ELSE st.args
        fail(err) == [command |-> << >>, args |-> << >>, err |-> err]
    IN  IF st.inQuotes THEN fail(ErrMismatchedQuotes)
        ELSE IF Len(args) = 0 THEN fail(ErrEmptyCommand)
        ELSE IF Len(args) = 1 THEN fail(ErrMissingArgs)
        ELSE [command |-> ToUpper(args[1]), args |-> Tail(args), err |-> NoError]

\* The lines of up to MaxLine runes.
Lines == UNION {[1 .. len -> Runes] : len \in 0 .. MaxLine}

\* ParseCommandLine called on a line; reply keeps the line and what it returned.
CallParseCommandLine(s, line) ==
    /\ Ready(s) /\ reply[s].op = NoReply.op
    /\ LET r == ParseCommandLine(line)
       IN  reply' = [reply EXCEPT ![s] =
                Return("ParseCommandLine", r.err, <<line, r.command, r.args>>)]
    /\ UNCHANGED <<data, clientDBIndices, transactions, transactionMutex, frame,
                   crashed, wire, hist>>

\* The codec applied once to any line.
NextParse == \E line \in Lines : CallParseCommandLine("c1", line)

SpecParse == Init /\ [][NextParse]_vars

RECURSIVE Escaped(_, _)
\* The rune at position i follows a backslash that is itself not escaped.
Escaped(line, i) == i > 1 /\ line[i - 1] = "\\" /\ ~Escaped(line, i - 1)

\* The rune at i is a double quote that opens or closes a quoted region.
QuoteMark(line, i) == line[i] = "\"" /\ ~Escaped(line, i)

\* Position i lies inside a quoted region (i = Len(line) + 1: the line ends
\* inside one).
Quoted(line, i) ==
    Cardinality({j \in 1 .. i - 1 : QuoteMark(line, j)}) % 2 = 1

\* The rune at i is whitespace that separates tokens.
Separator(line, i) ==
    line[i] = " " /\ ~Escaped(line, i) /\ ~Quoted(line, i)

\* The rune at i is part of a token: it follows a backslash, or it is neither
\* a backslash, nor a quote mark, nor a separator.
Literal(line, i) ==
    \/ Escaped(line, i)
    \/ line[i] # "\\" /\ ~QuoteMark(line, i) /\ ~Separator(line, i)

RECURSIVE Text(_, _, _)
\* The literal runes of the positions lo .. hi, in order.
Text(line, lo, hi) ==
    IF lo > hi THEN << >>
    ELSE (IF Literal(line, lo) THEN <<line[lo]>> ELSE << >>) \o Text(line, lo + 1, hi)

\* The first positions of the stretches between separators that hold a
\* literal rune.
Starts(line) ==
    {lo \in 1 .. Len(line) :
        /\ ~Separator(line, lo)
        /\ lo = 1 \/ Separator(line, lo - 1)
        /\ \E i \in lo .. Len(line) :
              Literal(line, i) /\ \A j \in lo .. i : ~Separator(line, j)}

\* The last position of the stretch that starts at lo.
End(line, lo) ==
    CHOOSE hi \in lo .. Len(line) :
        /\ \A j \in lo .. hi : ~Separator(line, j)
        /\ hi = Len(line) \/ Separator(line, hi + 1)

RECURSIVE TokensFrom(_, _)
\* The tokens of the stretches that start in the set, in the order of the line.
TokensFrom(line, starts) ==
    IF starts = {} THEN << >>
    ELSE LET lo == CHOOSE x \in starts : \A y \in starts : x <= y
         IN  <<Text(line, lo, End(line, lo))>> \o TokensFrom(line, starts \ {lo})

\* The tokens of a line.
Tokens(line) == TokensFrom(line, Starts(line))

\* What the codec returned for the line of the last call.
Parsed == [line |-> reply["c1"].val[1], command |-> reply["c1"].val[2],
           args |-> reply["c1"].val[3], err |-> reply["c1"].err]

LinePieces ==
    {<<"s", "e", "t">>, <<"k">>, <<" ">>, <<"\"">>, <<"\\">>}

\* The most pieces a request line has.
MaxPieces == 6

RECURSIVE Concat(_)
\* The runes of a sequence of pieces.
Concat(pieces) ==
    IF pieces = << >> THEN << >> ELSE Head(pieces) \o Concat(Tail(pieces))

\* The request lines: up to MaxPieces pieces.
RequestLines ==
    {Concat(pieces) :
        pieces \in UNION {[1 .. len -> LinePieces] : len \in 0 .. MaxPieces}}

RECURSIVE Str(_)
\* The Go string of a sequence of runes.
Str(runes) == IF runes = << >> THEN "" ELSE Head(runes) \o Str(Tail(runes))

\* What ParseCommandLine returns for the request lines, as Go strings.
Requests ==
    {LET r == ParseCommandLine(line)
     IN  [command |-> Str(r.command),
          args |-> [j \in DOMAIN r.args |-> Str(r.args[j])],
          err |-> r.err] : line \in RequestLines}

\* The most keys the database of SpecLine holds.
MaxKeys == 1

\* One round of the loop of handleConnection for a session outside a
\* transaction, after ParseCommandLine: the parse error is written, or the
\* command is executed.
HandleRequest(s, r) ==
    /\ Immediate(s)
    /\ IF r.err # NoError
       THEN /\ Ready(s)
            /\ UNCHANGED <<data, clientDBIndices, transactions, transactionMutex,
                           frame, reply, crashed>>
            /\ writeResponse(s, r.err)
       ELSE executeCommand(s, r.command, r.args)
    /\ Cardinality(DOMAIN data'[0]) <= MaxKeys
    /\ UNCHANGED hist

\* One connection sends any request line in normal mode.
NextLine == \E r \in Requests : HandleRequest("c1", r)

SpecLine == Init /\ [][NextLine]_vars

\* C36: whatever request lines were sent, no database has the empty string
\* for a key.
C36_NoEmptyKey == \A i \in DBs : "" \notin DOMAIN data[i]

\* C36: a key made of one blank is stored, by a line that escapes the blank,
\* after a SET whose first argument was a pair of quotes with nothing between
\* them was refused for its number of arguments.
C36_Witness ==
    /\ " " \in DOMAIN data[0]
    /\ wire["c1"] = "wrong number of arguments for SET command"

\* ------------------------------------------------------ frame of a rollback

BookStep(a) ==
    /\ \/ crashed'
       \/ reply'[a].op \in {"none", "StartTransaction", "QueueCommand",
                            "ReportTransactionError", "DiscardTransaction",
                            "ExecuteTransaction"}
    /\ \/ StartTransaction(a)
       \/ \E c \in QueueInputs : QueueCommand(a, c.name, c.args)
       \/ ReportTransactionError(a)
       \/ DiscardTransaction(a)
       \/ ExecBegin(a) \/ ExecSave(a) \/ ExecApply(a)
       \/ RollbackStep(a) \/ RollbackEnd(a) \/ ExecFinish(a)

\* C38: a step of a book operation of one session leaves the open transaction
\* of another session, which is between calls, as it is (its queue, its flag,
\* its database index and its place in the book), and leaves that session's
\* index in the registry as it is.
C38_OtherSessionUntouched ==
    [][\A a \in Concurrent, b \in Concurrent :
          (a # b /\ OpenTx(b) /\ frame[b].pc = "idle" /\ BookStep(a))
            => /\ ~crashed'
               /\ b \in DOMAIN transactions'
               /\ transactions'[b] = transactions[b]
               /\ clientDBIndices' = clientDBIndices]_vars

\* ------------------------------------------------------------ empty batch

\* C39: the ExecuteTransaction of a transaction with an empty queue returns no
\* error and no result, changes no database, and the session has no
\* transaction afterwards.
C39_EmptyBatchEndsTransaction ==
    [][\A s \in Sessions :
          (/\ frame[s].pc = "run" /\ frame[s].commands = << >>
           /\ frame'[s].pc = "idle" /\ ~crashed')
            => /\ reply'[s].op = "ExecuteTransaction"
               /\ reply'[s].err = NoError
               /\ reply'[s].val = << >>
               /\ data' = data
               /\ ~InTransaction(s)']_vars

\* --------------------------------------------------------------- lock order

\* The three locks: Store.transactionMutex (a sync.Mutex), and the RWMutexes
\* Store.clientMutex and MemoryStorage.dataMutex.
BookMutex == "transactionMutex"

ClientMutex == "clientMutex"

DataMutex == "dataMutex"

Lock(mutex) == [do |-> "Lock", mutex |-> mutex]

Unlock(mutex) == [do |-> "Unlock", mutex |-> mutex]

RLock(mutex) == [do |-> "RLock", mutex |-> mutex]

RUnlock(mutex) == [do |-> "RUnlock", mutex |-> mutex]

\* A faulty StartTransaction: it reads the session's index first and keeps the
\* registry lock while it takes the book's mutex.
StartTransactionLocksReversed ==
    <<RLock(ClientMutex), Lock(BookMutex), Unlock(BookMutex), RUnlock(ClientMutex)>>

\* The lock calls of a StartTransaction that opens a transaction:
\* GetClientDBIndex is called under the book's mutex.
StartTransactionLocks ==
    <<Lock(BookMutex), RLock(ClientMutex), RUnlock(ClientMutex), Unlock(BookMutex)>>

\* The lock calls of a primitive of the storage that writes (Set, Del, IncrBy)
\* and of one that reads (Get, Compact).
WriteLocks == <<Lock(DataMutex), Unlock(DataMutex)>>

ReadLocks == <<RLock(DataMutex), RUnlock(DataMutex)>>

\* The lock calls of each path of each operation of the Store, in the order
\* the code makes them. An ExecuteTransaction runs one writing command (its
\* pre-image is read first) and, when it aborts, restores one key.
LockScripts ==
    [op \in {"SetClientDBIndex", "GetClientDBIndex", "RemoveClient", "Set", "Get",
             "StartTransaction", "StartTransaction: in progress", "QueueCommand",
             "DiscardTransaction", "ReportTransactionError",
             "ExecuteTransaction: none", "ExecuteTransaction: flagged",
             "ExecuteTransaction: done", "ExecuteTransaction: aborted"} |->
        CASE op \in {"SetClientDBIndex", "RemoveClient"} ->
               <<Lock(ClientMutex), Unlock(ClientMutex)>>
          [] op = "GetClientDBIndex" -> <<RLock(ClientMutex), RUnlock(ClientMutex)>>
          [] op = "Set" -> WriteLocks
          [] op = "Get" -> ReadLocks
          [] op = "StartTransaction" -> StartTransactionLocks
          [] op \in {"StartTransaction: in progress", "QueueCommand",
                     "DiscardTransaction", "ReportTransactionError",
                     "ExecuteTransaction: none"} ->
               <<Lock(BookMutex), Unlock(BookMutex)>>
          [] op = "ExecuteTransaction: flagged" -> <<Lock(BookMutex)>>
          [] op = "ExecuteTransaction: done" ->
               <<Lock(BookMutex), Unlock(BookMutex)>> \o ReadLocks \o WriteLocks
          [] op = "ExecuteTransaction: aborted" ->
               <<Lock(BookMutex), Unlock(BookMutex)>> \o ReadLocks \o WriteLocks
                 \o WriteLocks \o <<Lock(BookMutex), Unlock(BookMutex)>>]

\* A session between calls, in the specification of the locks: the call it is
\* in, the lock calls it has still to make and the locks it holds, in the
\* order it took them.
LockIdle == [pc |-> "idle", op |-> "none", todo |-> << >>, held |-> << >>]

InitLocks ==
    /\ data = [i \in DBs |-> EmptyMap]
    /\ clientDBIndices = EmptyMap
    /\ transactions = EmptyMap
    /\ transactionMutex = Unlocked
    /\ frame = [s \in Sessions |-> LockIdle]
    /\ reply = [s \in Sessions |-> NoReply]
    /\ crashed = FALSE
    /\ wire = [s \in Sessions |-> NoResponse]
    /\ hist = [s \in Sessions |-> IdleHist]

\* The session holds the lock, in the mode.
Holds(s, mutex, mode) ==
    \E j \in DOMAIN frame[s].held :
        frame[s].held[j] = [mutex |-> mutex, mode |-> mode]

\* The lock call can return: a Lock needs the lock free, an RLock needs it
\* free of a writer. The book's mutex stays locked when a call returned
\* without Unlock.
Free(e) ==
    /\ e.mutex = BookMutex => transactionMutex = Unlocked
    /\ \A t \in Sessions : ~Holds(t, e.mutex, "w")
    /\ e.do = "Lock" => \A t \in Sessions : ~Holds(t, e.mutex, "r")

\* A session calls an operation of the Store.
CallStore(s, op) ==
    /\ Ready(s)
    /\ frame' = [frame EXCEPT ![s] = [pc |-> "call", op |-> op,
                                      todo |-> LockScripts[op], held |-> << >>]]
    /\ UNCHANGED <<data, clientDBIndices, transactions, transactionMutex, reply,
                   crashed, wire, hist>>

\* The next lock call of the session returns: Lock or RLock.
Acquire(s) ==
    /\ frame[s].pc = "call" /\ frame[s].todo # << >>
    /\ LET e == Head(frame[s].todo)
       IN  /\ e.do \in {"Lock", "RLock"}
           /\ Free(e)
           /\ frame' = [frame EXCEPT
                 ![s].todo = Tail(@),
                 ![s].held = Append(@, [mutex |-> e.mutex,
                                        mode |-> IF e.do = "Lock" THEN "w" ELSE "r"])]
           /\ transactionMutex' = IF e.mutex = BookMutex THEN s ELSE transactionMutex
    /\ UNCHANGED <<data, clientDBIndices, transactions, reply, crashed, wire, hist>>

\* The next lock call of the session: Unlock or RUnlock.
Release(s) ==
    /\ frame[s].pc = "call" /\ frame[s].todo # << >>
    /\ LET e == Head(frame[s].todo)
       IN  /\ e.do \in {"Unlock", "RUnlock"}
           /\ frame' = [frame EXCEPT
                 ![s].todo = Tail(@),
                 ![s].held = SelectSeq(@, LAMBDA h : h.mutex # e.mutex)]
           /\ transactionMutex' = IF e.mutex = BookMutex THEN Unlocked
                                  ELSE transactionMutex
    /\ UNCHANGED <<data, clientDBIndices, transactions, reply, crashed, wire, hist>>

\* The call returns; a lock it did not release stays locked.
ReturnFromStore(s) ==
    /\ frame[s].pc = "call" /\ frame[s].todo = << >>
    /\ frame' = [frame EXCEPT ![s] = LockIdle]
    /\ UNCHANGED <<data, clientDBIndices, transactions, transactionMutex, reply,
                   crashed, wire, hist>>

\* Every session calls any operation at any time; the lock calls interleave.
NextLocks ==
    \E s \in Sessions :
        \/ \E op \in DOMAIN LockScripts : CallStore(s, op)
        \/ Acquire(s)
        \/ Release(s)
        \/ ReturnFromStore(s)

SpecLocks == InitLocks /\ [][NextLocks]_vars

\* Session s is in a lock call that cannot return because of a lock that
\* session t holds.
WaitsFor(s, t) ==
    /\ s # t
    /\ frame[s].pc = "call" /\ frame[s].todo # << >>
    /\ LET e == Head(frame[s].todo)
       IN  /\ e.do \in {"Lock", "RLock"}
           /\ \/ Holds(t, e.mutex, "w")
              \/ e.do = "Lock" /\ Holds(t, e.mutex, "r")

\* C40: a call takes the book's mutex only while it holds no lock, and the
\* registry lock or the storage lock while it holds nothing but, at most, the
\* book's mutex; it never holds the registry lock and the storage lock
\* together. No sessions wait for each other's locks in a cycle.
C40_LockOrder ==
    /\ \A s \in Sessions :
          /\ Len(frame[s].held) <= 2
          /\ \A j \in DOMAIN frame[s].held :
                /\ frame[s].held[j].mutex = BookMutex => j = 1
                /\ j = 2 => frame[s].held[1].mutex = BookMutex
    /\ \A s \in Sessions, t \in Sessions, u \in Sessions :
          /\ ~(WaitsFor(s, t) /\ WaitsFor(t, s))
          /\ ~(WaitsFor(s, t) /\ WaitsFor(t, u) /\ WaitsFor(u, s))

\* C40: one session is in StartTransaction and holds the book's mutex and the
\* registry lock, a second waits for the book's mutex, a third holds the
\* storage lock.
C40_Witness ==
    /\ frame["c1"].op = "StartTransaction"
    /\ Holds("c1", BookMutex, "w") /\ Holds("c1", ClientMutex, "r")
    /\ WaitsFor("c2", "c1")
    /\ Holds("c3", DataMutex, "w")

====
